---- MODULE Spec2Model ----
(***************************************************************************)
(* Model of the MEXC volume-top-10 trading bot: the trade store (db.py),   *)
(* the self-rescheduling position monitor, and the daily entry job         *)
(* (bot.py).                                                               *)
(*                                                                         *)
(* Numbers.  The code computes with floats; the model uses exact integers. *)
(* Money and prices are in units of 1/4000 USDT (100 USDT = 400000), so    *)
(* that every quantity, stop-loss and take-profit price of the model's     *)
(* price set is an integer.  Percentages stored by the store are in        *)
(* hundredths of a percent.  The clock counts hours.  A dynamic stop-loss  *)
(* is carried multiplied by SLScale.                                       *)
(*                                                                         *)
(* Optional values.  None is the empty sequence <<>>, a present value v is *)
(* <<v>>; where the code only tests truthiness, None and 0 are both 0.     *)
(***************************************************************************)
EXTENDS Integers, Sequences, FiniteSets, TLC

\* ---------------------------------------------------------------- bounds
MaxTasks == 3
MaxPos == 2
MaxTime == 1
MaxStoreFails == 1

\* ------------------------------------------------------- program constants
DEFAULT_STOPLOSS == 5
TAKE_PROFIT_THRESHOLD == 10
DRY_STAKE_TOTAL == 400000
BASE_CHECK_INTERVAL_MINUTES == 5
QUICK_CHECK_INTERVAL_MINUTES == 1
TIME_THRESHOLD_HOURS == 10
MIN_STAKE == 4000
SLScale == 100 * 240

\* Quotes the exchange returns while positions are opened, and afterwards
\* while they are monitored.
EntryPrices == {8000, 12500}
Prices == {10000}
NoPrice == 0
Symbols == {"AAAUSDT", "BBBUSDT"}
HoldPool == {1}
Reasons == {"time_expiry", "stoploss", "take_profit", "manual"}
None == <<>>

\* What a call returned: nothing yet (None), an exception (Raised), or a
\* value (None is also the value NoPrice of a price read).
Raised == <<-1>>

\* The configurations examined: << DRY_RUN, STOP_LOSS_ENABLED,
\* TAKE_PROFIT_ENABLED >>.  The first is the default of bot.py.
Configs == { <<TRUE, TRUE, FALSE>>, <<FALSE, TRUE, TRUE>>, <<FALSE, FALSE, FALSE>> }

VARIABLES
    DRY_RUN, STOP_LOSS_ENABLED, TAKE_PROFIT_ENABLED,
    now,
    trades,
    hist,
    pc, next_check_task, cyc,
    entry,
    USE_WEBSOCKET, clock, cache, websocket_symbols, rd, cstat,
    NOTIFICATION_ENABLED, call,
    risk,
    day,
    event_loop

vars == << DRY_RUN, STOP_LOSS_ENABLED, TAKE_PROFIT_ENABLED, now, trades, hist,
           pc, next_check_task, cyc, entry,
           USE_WEBSOCKET, clock, cache, websocket_symbols, rd, cstat,
           NOTIFICATION_ENABLED, call, risk, day, event_loop >>

cfgVars == << DRY_RUN, STOP_LOSS_ENABLED, TAKE_PROFIT_ENABLED >>

\* The quote cache and its readers.
cacheVars == << USE_WEBSOCKET, clock, cache, websocket_symbols, rd, cstat >>

\* The state of the components that are examined on their own.
\* One call of the resilient call wrapper.
retryVars == << NOTIFICATION_ENABLED, call >>

\* One evaluation of a function of the risk model or of the selector.
riskVars == << risk >>

\* The monitor around one midnight.
dayVars == << day >>

\* The jobs on the event loop.
loopVars == << event_loop >>

libVars == << cacheVars, retryVars, riskVars, dayVars, loopVars >>

\* The trade store, the monitor and the entry job.
botVars == << now, trades, hist, pc, next_check_task, cyc, entry >>

Tasks == 1..MaxTasks

Min(a, b) == IF a <= b THEN a ELSE b
Max(a, b) == IF a >= b THEN a ELSE b
Abs(a) == IF a >= 0 THEN a ELSE 0 - a
Count(s, x) == Cardinality({i \in 1..Len(s) : s[i] = x})
Range(s) == {s[i] : i \in 1..Len(s)}

\* ------------------------------------------------------------ trade store

\* Trade(...) as inserted by log_trade: closed defaults to 0, pnl to 0.0,
\* pnl_percent and close_reason to NULL.
NewTrade(sym, qty, price, amount, exit_at, stoploss_price, take_profit_price, t) ==
    [ symbol |-> sym, qty |-> qty, price |-> price, amount |-> amount,
      exit_at |-> exit_at, closed |-> 0, pnl |-> <<0>>, pnl_percent |-> None,
      stoploss_price |-> stoploss_price, take_profit_price |-> take_profit_price,
      close_reason |-> None, created |-> t ]

NewHist == [ ev |-> None, first |-> None, sells |-> 0, closes |-> 0, fails |-> 0 ]

\* The store writes of mark_closed that failed so far.
RECURSIVE SumFails(_, _)
SumFails(h, i) == IF i > Len(h) THEN 0 ELSE h[i].fails + SumFails(h, i + 1)

StoreFails == SumFails(hist, 1)

\* get_open_trades: ids of the rows with closed == 0, in id order.
get_open_trades(db) ==
    SelectSeq([i \in 1..Len(db) |-> i], LAMBDA i : db[i].closed = 0)

\* Variant: the query without the filter on closed.
due_trades_NoFilter(db, t) ==
    SelectSeq([i \in 1..Len(db) |-> i], LAMBDA i : db[i].exit_at <= t)

\* due_trades(now): rows with exit_at <= now and closed == 0.
due_trades(db, t) ==
    SelectSeq([i \in 1..Len(db) |-> i],
              LAMBDA i : db[i].exit_at <= t /\ db[i].closed = 0)

\* The percentage mark_closed derives from the stored pnl:
\*   current_price = pnl / qty + price ; (current_price / price - 1) * 100
PnlPercent(pnl, qty, price) ==
    (((pnl \div qty) + price) * 10000) \div price - 10000

\* Variant: the close also stores the closing price as the price of the row.
mark_closed_Reprice(tr, pnl, close_reason) ==
    [tr EXCEPT !.closed = 1, !.close_reason = <<close_reason>>,
               !.pnl = IF pnl # None THEN pnl ELSE @,
               !.price = IF pnl # None THEN pnl[1] \div tr.qty + @ ELSE @]

\* mark_closed(tr, pnl, close_reason): the row after a committed write.
\* There is no test of tr.closed: the write is applied to any row.
mark_closed(tr, pnl, close_reason) ==
    LET r1 == [tr EXCEPT !.closed = 1, !.close_reason = <<close_reason>>]
    IN IF pnl # None
       THEN IF tr.price > 0
            THEN [r1 EXCEPT !.pnl = pnl,
                            !.pnl_percent = <<PnlPercent(pnl[1], tr.qty, tr.price)>>]
            ELSE [r1 EXCEPT !.pnl = pnl]
       ELSE r1

\* The close fields of a row.
CloseFields(tr) ==
    [ closed |-> tr.closed, close_reason |-> tr.close_reason,
      pnl |-> tr.pnl, pnl_percent |-> tr.pnl_percent ]

\* ------------------------------------------------------------- risk model

get_stoploss_threshold == DEFAULT_STOPLOSS

\* Variant: the time factor without its cap of 0.8.
calculate_dynamic_stoploss_NoCap(entry_price, current_price, hours_held) ==
    LET base_threshold == DEFAULT_STOPLOSS
        stoploss_price == entry_price * (100 - base_threshold) * 240
        TF == 10 * hours_held
        dynamic_stoploss == SLScale * entry_price
                            + 100 * (current_price - entry_price) * TF
                            - entry_price * base_threshold * (240 - TF)
    IN IF current_price > entry_price
       THEN Max(stoploss_price, dynamic_stoploss)
       ELSE stoploss_price

\* calculate_dynamic_stoploss, multiplied by SLScale.
\*   time_factor = min(hours_held / 24, 0.8) = TF / 240
calculate_dynamic_stoploss(entry_price, current_price, hours_held) ==
    LET base_threshold == get_stoploss_threshold
        stoploss_price == entry_price * (100 - base_threshold) * 240
        TF == Min(10 * hours_held, 192)
        dynamic_stoploss == SLScale * entry_price
                            + 100 * (current_price - entry_price) * TF
                            - entry_price * base_threshold * (240 - TF)
    IN IF current_price > entry_price
       THEN Max(stoploss_price, dynamic_stoploss)
       ELSE stoploss_price

\* get_check_interval with its three settings as parameters.  Hours are in
\* tenths of an hour, the result is in minutes multiplied by
\* IntervalScale(time_threshold) = 2 * time_threshold:
\*   quick + ratio * (base - quick) * 0.5, ratio = (t - th/2) / (th/2)
\*   base * 0.5 + ratio * base * 0.5,      ratio = (t - th) / th
IntervalScale(time_threshold) == 2 * time_threshold

CheckInterval(time_to_exit, base_interval, quick_interval, time_threshold) ==
    IF 2 * time_to_exit <= time_threshold
    THEN IntervalScale(time_threshold) * quick_interval
    ELSE IF time_to_exit <= time_threshold
    THEN IntervalScale(time_threshold) * quick_interval
         + (2 * time_to_exit - time_threshold) * (base_interval - quick_interval)
    ELSE IF time_to_exit <= 2 * time_threshold
    THEN time_to_exit * base_interval
    ELSE IntervalScale(time_threshold) * base_interval

\* get_check_interval under the default settings.
get_check_interval(time_to_exit) ==
    CheckInterval(time_to_exit, BASE_CHECK_INTERVAL_MINUTES,
                  QUICK_CHECK_INTERVAL_MINUTES, TIME_THRESHOLD_HOURS)

\* ---------------------------------------------------------------- prices

\* get_cached_market_price returns the last price or None; it never raises.
PriceOutcomes == Prices \cup {NoPrice}
EntryPriceOutcomes == EntryPrices \cup {NoPrice}

\* A price is usable when it is truthy: None and 0 are not.
PriceAvailable(price) == price # NoPrice

\* Variant: the monitor does not test the price it got.
SkipsTrade_Never(current_price) == FALSE

\* "if not current_price: continue" in both loops of the monitor.
SkipsTrade(current_price) == ~PriceAvailable(current_price)

\* ------------------------------------------------------ position monitor

\* Local state of one monitor cycle (one activation of
\* schedule_dynamic_checks) plus what the cycle did so far.
\*   snap    open_trades fetched at the start of the cycle
\*   todo    the trades the running loop has still to visit
\*   cnow    "now" taken at the start of the cycle
\*   visited trades handed to the body of the stop-loss/take-profit loop
\*   errs    trades whose evaluation raised (caught and logged)
\*   sold    trades for which a sell order was placed, one entry per order
\*   shut    trades for which a close was committed, one entry per commit
\*   due     the trades due_trades returned to exit_due
\*   expired trades handed to the body of the loop of exit_due
\*   deferred the trade of the latest iteration if its price was unavailable,
\*           else 0
\*   wait    for a scheduled task: next_check_minutes, the delay until
\*           run_time, multiplied by IntervalScale
NewCycle ==
    [ snap |-> <<>>, todo |-> <<>>, cnow |-> 0, visited |-> {}, errs |-> {},
      sold |-> <<>>, shut |-> <<>>, due |-> <<>>, expired |-> {},
      deferred |-> 0, wait |-> 0 ]

\* Task.done()
IsDone(p) == p \in {"free", "done"}

\* The trigger check_stoploss_and_take_profit derives: the stop-loss test
\* assigns first, the take-profit test assigns after it.
TriggerReason(sl, tp) ==
    LET r1 == IF sl THEN "stoploss" ELSE "none"
    IN IF tp THEN "take_profit" ELSE r1

\* Variant: the price must be below the level, not at it.
StopLossHit_Below(tr, price, t) ==
    /\ STOP_LOSS_ENABLED
    /\ tr.stoploss_price # 0
    /\ price * SLScale < calculate_dynamic_stoploss(tr.price, price, t - tr.created)

StopLossHit(tr, price, t) ==
    /\ STOP_LOSS_ENABLED
    /\ tr.stoploss_price # 0
    /\ price * SLScale <= calculate_dynamic_stoploss(tr.price, price, t - tr.created)

TakeProfitHit(tr, price) ==
    /\ TAKE_PROFIT_ENABLED
    /\ tr.take_profit_price # 0
    /\ price >= tr.take_profit_price

\* Variant: the value is computed from the first row of the store.
Pnl_Other(tr, price) == (price - trades[1].price) * trades[1].qty

\* pnl = (current_price - tr.price) * tr.qty
Pnl(tr, price) == (price - tr.price) * tr.qty

\* The close_reason the monitor's call of mark_closed carries: both call
\* sites are mark_closed(tr, pnl), so the parameter keeps its default.
CloseReasonArg(trigger) == "time_expiry"

\* Variant: create_order is called whatever DRY_RUN says.
SendsOrder_Always(dry_run) == TRUE

\* "if DRY_RUN: log ... else: retry_async(exchange.create_order, ...)" at
\* lines 394, 472 and 560: the order is sent only outside dry-run.
SendsOrder(dry_run) == ~dry_run

\* What one evaluation that decided to close does to the store and the
\* history.  order_ok: the sell order went through (retry_async did not
\* raise); store_ok: the session commit of mark_closed succeeded.
\* In dry-run no order is sent.
CloseEffect(id, price, trigger, sl, tp, order_ok, store_ok) ==
    LET tr == trades[id]
        placed == SendsOrder(DRY_RUN) /\ order_ok
        raised == SendsOrder(DRY_RUN) /\ ~order_ok
        commit == ~raised /\ store_ok
        row == mark_closed(tr, <<Pnl(tr, price)>>, CloseReasonArg(trigger))
        ev == [ sl |-> sl, tp |-> tp, due |-> tr.exit_at <= now,
                trigger |-> trigger, price |-> price ]
    IN [ raised |-> raised, placed |-> placed, commit |-> commit,
         trades |-> IF commit THEN [trades EXCEPT ![id] = row] ELSE trades,
         hist |-> [hist EXCEPT
                     ![id].sells = @ + (IF placed THEN 1 ELSE 0),
                     ![id].closes = @ + (IF commit THEN 1 ELSE 0),
                     ![id].fails = @ + (IF ~raised /\ ~store_ok THEN 1 ELSE 0),
                     ![id].ev = IF commit THEN <<ev>> ELSE @,
                     ![id].first = IF commit /\ @ = None
                                   THEN <<CloseFields(row)>> ELSE @] ]

\* Variant: the try/except encloses the loop, so a raise ends it.
Remaining_Abort(rest, raised) == IF raised THEN <<>> ELSE rest

\* What the loop still visits after an iteration: the per-trade try/except
\* is inside the loop, so an iteration that raised does not end it.
Remaining(rest, raised) == rest

\* Where a loop goes when it has visited its last trade.
AfterLoop(rest, loop, next) == IF rest = <<>> THEN next ELSE loop

\* schedule_dynamic_checks, lines 611-638 and 515-526: take "now", fetch the
\* open trades, and enter the stop-loss/take-profit loop.
StartCycle(t) ==
    /\ pc[t] = "start"
    /\ LET open == get_open_trades(trades)
           c == [NewCycle EXCEPT !.snap = open, !.cnow = now]
       IN IF open = <<>>
          THEN /\ pc' = [pc EXCEPT ![t] = "step4"]
               /\ cyc' = [cyc EXCEPT ![t] = c]
          ELSE IF ~STOP_LOSS_ENABLED /\ ~TAKE_PROFIT_ENABLED
          THEN /\ pc' = [pc EXCEPT ![t] = "exit_due"]
               /\ cyc' = [cyc EXCEPT ![t] = c]
          ELSE /\ pc' = [pc EXCEPT ![t] = "check"]
               /\ cyc' = [cyc EXCEPT ![t] = [c EXCEPT !.todo = open]]
    /\ UNCHANGED << cfgVars, libVars, now, trades, hist, next_check_task, entry >>

\* One iteration of the loop of check_stoploss_and_take_profit.
CheckOne(t) ==
    /\ pc[t] = "check"
    /\ cyc[t].todo # <<>>
    /\ \E price \in PriceOutcomes, order_ok \in BOOLEAN, store_ok \in BOOLEAN :
        LET id == Head(cyc[t].todo)
            rest == Tail(cyc[t].todo)
            tr == trades[id]
            sl == StopLossHit(tr, price, cyc[t].cnow)
            tp == TakeProfitHit(tr, price)
            trigger == TriggerReason(sl, tp)
            e == CloseEffect(id, price, trigger, sl, tp, order_ok, store_ok)
            acts == ~SkipsTrade(price) /\ trigger # "none"
            left == Remaining(rest, acts /\ e.raised)
            c0 == [cyc[t] EXCEPT !.todo = left, !.visited = @ \cup {id},
                                 !.deferred = IF price = NoPrice THEN id ELSE 0]
        IN /\ store_ok \/ StoreFails < MaxStoreFails
           /\ pc' = [pc EXCEPT ![t] = AfterLoop(left, "check", "exit_due")]
           /\ IF acts
              THEN /\ trades' = e.trades
                   /\ hist' = e.hist
                   /\ cyc' = [cyc EXCEPT ![t] =
                        [c0 EXCEPT !.errs = IF e.raised THEN @ \cup {id} ELSE @,
                                   !.sold = IF e.placed THEN Append(@, id) ELSE @,
                                   !.shut = IF e.commit THEN Append(@, id) ELSE @]]
              ELSE /\ cyc' = [cyc EXCEPT ![t] = c0]
                   /\ UNCHANGED << trades, hist >>
    /\ UNCHANGED << cfgVars, libVars, now, next_check_task, entry >>

\* exit_due, lines 451-455: query the due trades.
ExitDue(t) ==
    /\ pc[t] = "exit_due"
    /\ LET due == due_trades(trades, now)
       IN /\ pc' = [pc EXCEPT ![t] = AfterLoop(due, "exit", "step4")]
          /\ cyc' = [cyc EXCEPT ![t].todo = due, ![t].due = due]
    /\ UNCHANGED << cfgVars, libVars, now, trades, hist, next_check_task, entry >>

\* One iteration of the loop of exit_due.
ExitOne(t) ==
    /\ pc[t] = "exit"
    /\ cyc[t].todo # <<>>
    /\ \E price \in PriceOutcomes, order_ok \in BOOLEAN, store_ok \in BOOLEAN :
        LET id == Head(cyc[t].todo)
            rest == Tail(cyc[t].todo)
            tr == trades[id]
            sl == StopLossHit(tr, price, now)
            tp == TakeProfitHit(tr, price)
            e == CloseEffect(id, price, "time_expiry", sl, tp, order_ok, store_ok)
            left == Remaining(rest, ~SkipsTrade(price) /\ e.raised)
            c0 == [cyc[t] EXCEPT !.todo = left, !.expired = @ \cup {id},
                                 !.deferred = IF price = NoPrice THEN id ELSE 0]
        IN /\ store_ok \/ StoreFails < MaxStoreFails
           /\ pc' = [pc EXCEPT ![t] = AfterLoop(left, "exit", "step4")]
           /\ IF ~SkipsTrade(price)
              THEN /\ trades' = e.trades
                   /\ hist' = e.hist
                   /\ cyc' = [cyc EXCEPT ![t] =
                        [c0 EXCEPT !.errs = IF e.raised THEN @ \cup {id} ELSE @,
                                   !.sold = IF e.placed THEN Append(@, id) ELSE @,
                                   !.shut = IF e.commit THEN Append(@, id) ELSE @]]
              ELSE /\ cyc' = [cyc EXCEPT ![t] = c0]
                   /\ UNCHANGED << trades, hist >>
    /\ UNCHANGED << cfgVars, libVars, now, next_check_task, entry >>

\* Task.cancel() on the handle h, called by the running task t.  A task
\* that is suspended at an await gets CancelledError there, which no
\* "except Exception" catches: it ends.  For the running task itself the
\* request is only recorded; it would be delivered at its next await, and
\* there is none between line 658 and the end of the task.
Cancel(pcs, h, t) ==
    IF h # 0 /\ ~IsDone(pcs[h]) /\ h # t
    THEN [pcs EXCEPT ![h] = "done"]
    ELSE pcs

\* Variant: the retry of lines 667-668 in a "finally", so it also runs
\* after the next task was created.
ScheduleNext_Finally(pcs, h, t, n) ==
    [Cancel(pcs, h, t) EXCEPT ![t] = "fallback", ![n] = "sleep"]

\* Variant: the new task is created and stored first, and the cancel then
\* hits the handle that was just stored.
ScheduleNext_CancelNew(pcs, h, t, n) ==
    [Cancel([pcs EXCEPT ![n] = "sleep"], n, t) EXCEPT ![t] = "done"]

\* Lines 657-661: cancel the task held in next_check_task, then create the
\* next scheduled_check task in slot n; the running task t returns.
ScheduleNext(pcs, h, t, n) ==
    [Cancel(pcs, h, t) EXCEPT ![t] = "done", ![n] = "sleep"]

\* Variant: without the "global" declaration the assignment is local.
NewHandle_Local(h, n) == h

\* Line 661: "global next_check_task" makes the assignment the new handle.
NewHandle(h, n) == n

\* A slot for the task asyncio.create_task makes.
FreeSlots(pcs, h, t) == {n \in Tasks : n # t /\ IsDone(Cancel(pcs, h, t)[n])}

\* Lines 644-648 can raise (closest_exit, time_to_exit, get_check_interval
\* are outside every inner try); they run only when there are open trades.
CanRaise(c) == c.snap # <<>>

\* min over a non-empty set of trades of exit_at.
MinExit(db, ids) ==
    CHOOSE e \in {db[i].exit_at : i \in ids} :
        \A i \in ids : e <= db[i].exit_at

\* Line 644: the list comprehension runs over open_trades, the list
\* fetched at line 612, whatever the loops did to its trades since.
ExitCandidates(db, open_trades) == Range(open_trades)

\* Lines 632-648: next_check_minutes, multiplied by
\* IntervalScale(TIME_THRESHOLD_HOURS).  The clock counts hours and
\* get_check_interval takes tenths of an hour.
NextCheckMinutes(db, c) ==
    IF c.snap = <<>>
    THEN IntervalScale(TIME_THRESHOLD_HOURS) * BASE_CHECK_INTERVAL_MINUTES
    ELSE get_check_interval(
             10 * (MinExit(db, ExitCandidates(db, c.snap)) - c.cnow))

\* Step 4, lines 650-661.
ScheduleCheck(t) ==
    /\ pc[t] = "step4"
    /\ FreeSlots(pc, next_check_task, t) # {}
    /\ LET n == CHOOSE m \in FreeSlots(pc, next_check_task, t) :
                    \A k \in FreeSlots(pc, next_check_task, t) : m <= k
       IN /\ pc' = ScheduleNext(pc, next_check_task, t, n)
          /\ next_check_task' = NewHandle(next_check_task, n)
          /\ cyc' = [cyc EXCEPT ![t] = NewCycle,
                                ![n] = [NewCycle EXCEPT
                                          !.wait = NextCheckMinutes(trades, cyc[t])]]
    /\ UNCHANGED << cfgVars, libVars, now, trades, hist, entry >>

\* Lines 663-667: a cycle-level exception is caught and logged, and the
\* coroutine sleeps BASE_CHECK_INTERVAL_MINUTES.
CycleError(t) ==
    /\ pc[t] = "step4"
    /\ CanRaise(cyc[t])
    /\ pc' = [pc EXCEPT ![t] = "fallback"]
    /\ UNCHANGED << cfgVars, libVars, now, trades, hist, next_check_task, cyc, entry >>

\* Line 668: after the fallback delay the coroutine calls itself.
Retry(t) ==
    /\ pc[t] = "fallback"
    /\ pc' = [pc EXCEPT ![t] = "start"]
    /\ UNCHANGED << cfgVars, libVars, now, trades, hist, next_check_task, cyc, entry >>

\* scheduled_check, lines 673-680: the sleep until run_time is over.
scheduled_check(t) ==
    /\ pc[t] = "sleep"
    /\ pc' = [pc EXCEPT ![t] = "start"]
    /\ UNCHANGED << cfgVars, libVars, now, trades, hist, next_check_task, cyc, entry >>

\* ------------------------------------------------------------ entry job

\* The tickers of the exchange: raw.items() in the order of the dict, each
\* with its quoteVolume (None when the exchange gives none); raised when
\* get_cached_tickers raises.
TickerIds == {"AAA/USDT", "BBB/USDT", "CCC/BTC"}
Volumes == { None, <<1>>, <<2>> }
MaxTickers == 3

TickerMaps ==
    { raw \in UNION { [1..k -> [sym : TickerIds, quoteVolume : Volumes]] :
                        k \in 0..MaxTickers } :
        \A i, j \in 1..Len(raw) : raw[i].sym = raw[j].sym => i = j }

TickerOutcomes ==
    { [raised |-> FALSE, items |-> m] : m \in TickerMaps }
    \cup { [raised |-> TRUE, items |-> <<>>] }

\* The tickers in the runs of the entry job: the fetch raises; no ticker;
\* no USDT ticker; a ticker without volume; one instrument; two instruments
\* of different and of equal volume.
EntryTickers ==
    { [raised |-> TRUE, items |-> <<>>],
      [raised |-> FALSE, items |-> <<>>],
      [raised |-> FALSE, items |-> << [sym |-> "CCC/BTC", quoteVolume |-> <<2>>] >>],
      [raised |-> FALSE, items |-> << [sym |-> "AAA/USDT", quoteVolume |-> None],
                                      [sym |-> "BBB/USDT", quoteVolume |-> <<1>>] >>],
      [raised |-> FALSE, items |-> << [sym |-> "CCC/BTC", quoteVolume |-> <<2>>],
                                      [sym |-> "AAA/USDT", quoteVolume |-> <<1>>] >>],
      [raised |-> FALSE, items |-> << [sym |-> "AAA/USDT", quoteVolume |-> <<1>>],
                                      [sym |-> "BBB/USDT", quoteVolume |-> <<2>>] >>],
      [raised |-> FALSE, items |-> << [sym |-> "BBB/USDT", quoteVolume |-> <<1>>],
                                      [sym |-> "AAA/USDT", quoteVolume |-> <<1>>] >>] }

\* MAX_CONCURRENT_SYMBOLS as configured; 10 is the default.
ConcurrentLimits == {1, 2, 10}

\* k.endswith('/USDT')
EndsWithUSDT(k) == k \in {"AAA/USDT", "BBB/USDT"}

\* sym.replace('/', '')
RemoveSlash(sym) ==
    CASE sym = "AAA/USDT" -> "AAAUSDT"
      [] sym = "BBB/USDT" -> "BBBUSDT"
      [] sym = "CCC/BTC" -> "CCCBTC"

\* sorted(..., key=quoteVolume, reverse=True) is stable: an item goes
\* behind every item already placed whose volume is not smaller.
RECURSIVE InsertRanked(_, _)
InsertRanked(ranked, kv) ==
    IF ranked = <<>> THEN << kv >>
    ELSE IF Head(ranked).quoteVolume[1] >= kv.quoteVolume[1]
    THEN << Head(ranked) >> \o InsertRanked(Tail(ranked), kv)
    ELSE << kv >> \o ranked

RECURSIVE SortedByVolume(_)
SortedByVolume(items) ==
    IF items = <<>> THEN <<>>
    ELSE InsertRanked(SortedByVolume(SubSeq(items, 1, Len(items) - 1)),
                      items[Len(items)])

\* Comparing None with a number (or with None) is a TypeError; a list of
\* one item is sorted without a comparison.
RankingRaises(usdt) ==
    Len(usdt) >= 2 /\ \E i \in 1..Len(usdt) : usdt[i].quoteVolume = None

\* Variant: on an error the selector answers a fixed instrument.
top10_symbols_Default(raw, max_concurrent_symbols) ==
    LET usdt == SelectSeq(raw.items, LAMBDA kv : EndsWithUSDT(kv.sym))
    IN IF raw.raised \/ RankingRaises(usdt) THEN << "AAAUSDT" >>
       ELSE LET ranked == SortedByVolume(usdt)
                top_n == Min(max_concurrent_symbols, 10)
            IN [ i \in 1..Min(top_n, Len(ranked)) |-> RemoveSlash(ranked[i].sym) ]

\* top10_symbols: [] when the fetch or the ranking raises (lines 315-321).
top10_symbols(raw, max_concurrent_symbols) ==
    LET usdt == SelectSeq(raw.items, LAMBDA kv : EndsWithUSDT(kv.sym))
    IN IF raw.raised \/ RankingRaises(usdt) THEN <<>>
       ELSE LET ranked == SortedByVolume(usdt)
                top_n == Min(max_concurrent_symbols, 10)
            IN [ i \in 1..Min(top_n, Len(ranked)) |-> RemoveSlash(ranked[i].sym) ]

\* What top10_symbols returns in the runs of the monitor: one instrument,
\* or [] on error.
SymbolLists ==
    { <<>>, <<"AAAUSDT">> }

Balances == {4000000}
STAKE_PERCENT == 10
MAX_STAKE_USDT == 4000000

\* calculate_position_size
calculate_position_size(available_balance) ==
    LET stake_percent == IF STAKE_PERCENT <= 0 \/ STAKE_PERCENT > 100
                         THEN 10 ELSE STAKE_PERCENT
        max_stake == IF MAX_STAKE_USDT <= 0 THEN 4000000 ELSE MAX_STAKE_USDT
    IN Min((available_balance * stake_percent) \div 100, max_stake)

\* The outcome of the remote calls and of the store write for one
\* instrument of an entry cycle.
\* Calls that are not made have one (unused) outcome: no second price
\* and no order in dry-run, nothing after an unavailable price, no store
\* write after a failed order.
EntryOutcomes ==
    { o \in [ price : EntryPriceOutcomes, final_price : EntryPriceOutcomes,
              order_ok : BOOLEAN, store_ok : BOOLEAN ] :
        /\ DRY_RUN => o.final_price = NoPrice /\ o.order_ok
        /\ o.price = NoPrice => o.final_price = NoPrice /\ o.order_ok /\ o.store_ok
        /\ ~o.order_ok => o.store_ok }

\* log_trade: the store after the insert, or unchanged when the commit fails.
log_trade(db, row, store_ok) == IF store_ok THEN Append(db, row) ELSE db

\* The body of the loop of enter_positions (lines 371-432) for one
\* instrument, applied to the running result r of the cycle.
EnterOne(r, sym, o, stake, exit_at) ==
    LET price == o.price
        moved == ~DRY_RUN /\ PriceAvailable(o.final_price)
                 /\ 100 * Abs(o.final_price - price) > price
        price2 == IF moved THEN o.final_price ELSE price
        quantity == stake \div price2
        stoploss_price == (price * (100 - get_stoploss_threshold)) \div 100
        take_profit_price == IF TAKE_PROFIT_ENABLED
                             THEN (price * (100 + TAKE_PROFIT_THRESHOLD)) \div 100
                             ELSE 0
        skip == ~PriceAvailable(price) \/ stake < MIN_STAKE \/ stake \div price < 1
        placed == ~skip /\ SendsOrder(DRY_RUN) /\ o.order_ok
        raised == ~skip /\ SendsOrder(DRY_RUN) /\ ~o.order_ok
        logged == ~skip /\ ~raised
        row == NewTrade(sym, quantity, price2, stake, exit_at,
                        stoploss_price, take_profit_price, now)
    IN [ trades |-> IF logged THEN log_trade(r.trades, row, o.store_ok) ELSE r.trades,
         fails |-> r.fails + (IF logged /\ ~o.store_ok THEN 1 ELSE 0),
         orders |-> r.orders + (IF placed THEN 1 ELSE 0),
         tried |-> r.tried + 1,
         attempted |-> Append(r.attempted, sym),
         failed |-> IF raised THEN r.failed \cup {sym} ELSE r.failed,
         err |-> raised ]

\* Variant: the try/except encloses the loop of the entry job.
EntryContinues_Abort(raised) == ~raised

\* Lines 371-372 and 430-432: the try/except is inside the loop, so the
\* loop goes on after an iteration that raised.
EntryContinues(raised) == TRUE

\* The loop of enter_positions over symbols[i..].
RECURSIVE EnterLoop(_, _, _, _, _, _)
EnterLoop(r, symbols, outs, i, stake, exit_at) ==
    IF i > Len(symbols) \/ ~EntryContinues(r.err) THEN r
    ELSE EnterLoop(EnterOne(r, symbols[i], outs[i], stake, exit_at),
                   symbols, outs, i + 1, stake, exit_at)

REQUIRE_MARKET_CHECK == TRUE

\* Variant: an unsafe market is logged and the cycle goes on.
GateReturns_Warn(require_market_check, market_safe) == FALSE

\* Lines 331-337: with REQUIRE_MARKET_CHECK, enter_positions returns when
\* is_market_safe answers False.
GateReturns(require_market_check, market_safe) ==
    require_market_check /\ ~market_safe

\* enter_positions once top10_symbols has answered symbols (it is not
\* called when the gate returns): the market-safety gate, the stake, the
\* exit time, and one loop iteration per selected instrument.
\* entry.result is "unsafe" when the gate answered False; entry.attempted
\* lists the instruments the loop visited, entry.failed those whose order
\* raised.
EnterWith(market_safe, symbols, max_pos) ==
    \E hold_h \in HoldPool, bal \in Balances,
       outs \in [1..(IF GateReturns(REQUIRE_MARKET_CHECK, market_safe)
                     THEN 0 ELSE Len(symbols)) -> EntryOutcomes] :
        LET safe == ~GateReturns(REQUIRE_MARKET_CHECK, market_safe)
            stake_total == IF DRY_RUN THEN DRY_STAKE_TOTAL
                           ELSE calculate_position_size(bal)
            r0 == [ trades |-> trades, fails |-> 0, orders |-> 0, tried |-> 0,
                    attempted |-> <<>>, failed |-> {}, err |-> FALSE ]
            r == IF ~safe \/ symbols = <<>> THEN r0
                 ELSE EnterLoop(r0, symbols, outs, 1,
                                stake_total \div Len(symbols), now + hold_h)
        IN /\ Len(trades) + Len(symbols) <= max_pos
           /\ r.fails <= MaxStoreFails
           /\ trades' = r.trades
           /\ hist' = hist \o [i \in 1..(Len(r.trades) - Len(trades)) |-> NewHist]
           /\ entry' = [ result |-> IF REQUIRE_MARKET_CHECK /\ ~market_safe
                                    THEN "unsafe"
                                    ELSE IF symbols = <<>> THEN "empty" ELSE "done",
                         selected |-> IF safe THEN Len(symbols) ELSE 0,
                         tried |-> r.tried,
                         orders |-> r.orders,
                         made |-> Len(r.trades) - Len(trades),
                         attempted |-> r.attempted,
                         failed |-> r.failed ]
           /\ UNCHANGED << cfgVars, cacheVars, retryVars, dayVars, loopVars, now, pc,
                           next_check_task, cyc >>

\* enter_positions in the runs of the monitor.
enter_positions ==
    \E market_safe \in BOOLEAN, symbols \in SymbolLists :
        /\ EnterWith(market_safe, symbols, MaxPos)
        /\ UNCHANGED riskVars

\* enter_positions with the call of top10_symbols on the tickers of the
\* exchange; risk records that call.
MaxEntryPos == 2

EntryCycle ==
    \E market_safe \in BOOLEAN, raw \in EntryTickers,
       max_concurrent_symbols \in ConcurrentLimits :
        LET symbols == top10_symbols(raw, max_concurrent_symbols)
        IN /\ EnterWith(market_safe, symbols, MaxEntryPos)
           /\ risk' = IF GateReturns(REQUIRE_MARKET_CHECK, market_safe)
                      THEN risk
                      ELSE [ in |-> [ fn |-> "top10_symbols", raw |-> raw,
                                      max_concurrent_symbols |-> max_concurrent_symbols ],
                             out |-> << symbols >> ]

\* ------------------------------------------------------ the market gate

\* Percent: the defaults of MARKET_DECLINE_THRESHOLD (0.1) and
\* MARKET_VOLATILITY_THRESHOLD (0.05).
MARKET_DECLINE_THRESHOLD == 10
MARKET_VOLATILITY_THRESHOLD == 5

\* What fetch_ticker('BTC/USDT') gives is_market_safe: it raises, or it
\* returns a ticker with its 'percentage' (None when it is no number) and
\* its (high - low) / high in percent (None when high is absent or 0).
MarketTickers ==
    { [ raised |-> TRUE, percentage |-> None, volatility |-> None ] }
    \cup
    { [ raised |-> FALSE, percentage |-> p, volatility |-> v ] :
        p \in { None, <<0 - 150>>, <<0 - 15>>, <<0>>, <<2>> },
        v \in { None, <<2>>, <<8>> } }

\* is_market_safe, config.py 176-229: the except branch returns True, as
\* does a 'percentage' that is no number.
is_market_safe(ticker) ==
    IF ticker.raised THEN TRUE
    ELSE IF ticker.percentage = None THEN TRUE
    ELSE LET change_percent == ticker.percentage[1]
             actual_percent == IF Abs(change_percent) > 100 THEN change_percent
                               ELSE change_percent * 100
         IN IF actual_percent < 0 - MARKET_DECLINE_THRESHOLD THEN FALSE
            ELSE IF ticker.volatility # None
                    /\ ticker.volatility[1] > MARKET_VOLATILITY_THRESHOLD
            THEN FALSE
            ELSE TRUE

\* enter_positions with the call of is_market_safe on the reference
\* ticker; risk records that call.
GatedEntry ==
    \E ticker \in MarketTickers, symbols \in SymbolLists :
        /\ EnterWith(is_market_safe(ticker), symbols, MaxEntryPos)
        /\ risk' = [ in |-> [ fn |-> "is_market_safe", ticker |-> ticker ],
                     out |-> << is_market_safe(ticker) >> ]

NextGate == GatedEntry

\* ------------------------------------------------------------ quote cache

\* Seconds.  CACHE_TIMEOUT is the validity of the tickers and the balance,
\* PRICE_TIMEOUT that of a polled price, STREAM_FRESH that of a streamed one.
CACHE_TIMEOUT == 300
PRICE_TIMEOUT == 60
STREAM_FRESH == 10

MaxWindows == 2
MaxReaders == 2

Readers == 1..MaxReaders
CacheKeys == {"tickers", "balances", "prices"}
Payloads == {1, 2}
StreamPrices == {10500}

\* The validity of the entries of a key, and the grain of the clock while
\* that key is examined.
TTL(key) == IF key = "prices" THEN PRICE_TIMEOUT ELSE CACHE_TIMEOUT
ClockStep(key) == IF key = "prices" THEN STREAM_FRESH ELSE PRICE_TIMEOUT
MaxClock(key) == MaxWindows * TTL(key) + 2 * ClockStep(key)

\* cache as the module creates it; "prices" holds the entry of one symbol.
NewCache ==
    [ tickers |-> [data |-> None, timestamp |-> 0],
      balances |-> [data |-> None, timestamp |-> 0],
      prices |-> None ]

\* A reader: "idle" between calls, "load" while it awaits retry_async;
\* now is the time.time() it took when its call began, ret what its last
\* call returned.
NewReader == [ pc |-> "idle", now |-> 0, ret |-> None ]

\* Variant: every read finds its entry expired.
Expired_Always(age, ttl) == TRUE

\* "(now - timestamp) > CACHE_TIMEOUT", "... > 60".
Expired(age, ttl) == age > ttl

\* The payload a key holds, as a read returns it.
Stored(c, key) ==
    IF key = "prices"
    THEN IF c.prices = None THEN None ELSE << c.prices[1].price >>
    ELSE c[key].data

\* Whether a reader is inside a load.
Loading(readers) == \E q \in Readers : readers[q].pc = "load"

\* A call that returns without awaiting.
Return(r, value) ==
    /\ rd' = [rd EXCEPT ![r] = [pc |-> "idle", now |-> clock, ret |-> value]]
    /\ UNCHANGED cstat

\* A call that goes on to await its loader.
Load(r) ==
    /\ rd' = [rd EXCEPT ![r] = [pc |-> "load", now |-> clock, ret |-> None]]
    /\ cstat' = [cstat EXCEPT !.overlap = @ \/ Loading(rd)]

\* get_cached_tickers / get_cached_balance up to the await.
CoarseRead(r, key) ==
    /\ cstat.key = key
    /\ rd[r].pc = "idle"
    /\ IF cache[key].data = None
          \/ Expired(clock - cache[key].timestamp, CACHE_TIMEOUT)
       THEN Load(r)
       ELSE Return(r, cache[key].data)
    /\ UNCHANGED << cfgVars, botVars, riskVars, dayVars, loopVars, retryVars, USE_WEBSOCKET, clock, cache,
                    websocket_symbols >>

get_cached_tickers(r) == CoarseRead(r, "tickers")

get_cached_balance(r) == CoarseRead(r, "balances")

\* get_cached_market_price up to the await.
get_cached_market_price(r) ==
    /\ cstat.key = "prices"
    /\ rd[r].pc = "idle"
    /\ IF /\ USE_WEBSOCKET
          /\ "AAAUSDT" \in websocket_symbols
          /\ cache.prices # None
          /\ clock - cache.prices[1].timestamp < STREAM_FRESH
       THEN Return(r, << cache.prices[1].price >>)
       ELSE IF \/ cache.prices = None
               \/ Expired(clock - cache.prices[1].timestamp, PRICE_TIMEOUT)
       THEN Load(r)
       ELSE Return(r, << cache.prices[1].price >>)
    /\ UNCHANGED << cfgVars, botVars, riskVars, dayVars, loopVars, retryVars, USE_WEBSOCKET, clock, cache,
                    websocket_symbols >>

\* Variant: a load of the tickers or the balance that raised still stamps
\* the entry.
LoaderReturns_Stamp(r) ==
    /\ rd[r].pc = "load"
    /\ \/ /\ cstat.key = "prices"
          /\ \E price \in PriceOutcomes :
               IF PriceAvailable(price)
               THEN /\ cache' = [cache EXCEPT !.prices =
                                   << [price |-> price, timestamp |-> rd[r].now] >>]
                    /\ rd' = [rd EXCEPT ![r].pc = "idle", ![r].ret = <<price>>]
                    /\ cstat' = [cstat EXCEPT !.lastRefresh = << rd[r].now >>,
                                              !.from_stream = FALSE]
               ELSE /\ rd' = [rd EXCEPT ![r].pc = "idle", ![r].ret = <<NoPrice>>]
                    /\ UNCHANGED << cache, cstat >>
       \/ /\ cstat.key # "prices"
          /\ \/ \E data \in Payloads :
                  /\ cache' = [cache EXCEPT ![cstat.key] =
                                  [data |-> <<data>>, timestamp |-> rd[r].now]]
                  /\ rd' = [rd EXCEPT ![r].pc = "idle", ![r].ret = <<data>>]
                  /\ cstat' = [cstat EXCEPT !.lastRefresh = << rd[r].now >>]
             \/ /\ rd' = [rd EXCEPT ![r].pc = "idle", ![r].ret = Raised]
                /\ cache' = [cache EXCEPT ![cstat.key].timestamp = rd[r].now]
                /\ UNCHANGED cstat
    /\ UNCHANGED << cfgVars, botVars, riskVars, dayVars, loopVars, retryVars, USE_WEBSOCKET, clock, websocket_symbols >>

\* The awaited loader of a read returns or raises.
\*   prices: a ticker with a last price is stored with the reader's "now"
\*   and returned; a ticker without one, or an exception, gives None and
\*   stores nothing.
\*   tickers, balances: the result is stored with the reader's "now" and
\*   returned; an exception leaves the function and stores nothing.
LoaderReturns(r) ==
    /\ rd[r].pc = "load"
    /\ \/ /\ cstat.key = "prices"
          /\ \E price \in PriceOutcomes :
               IF PriceAvailable(price)
               THEN /\ cache' = [cache EXCEPT !.prices =
                                   << [price |-> price, timestamp |-> rd[r].now] >>]
                    /\ rd' = [rd EXCEPT ![r].pc = "idle", ![r].ret = <<price>>]
                    /\ cstat' = [cstat EXCEPT !.lastRefresh = << rd[r].now >>,
                                              !.from_stream = FALSE]
               ELSE /\ rd' = [rd EXCEPT ![r].pc = "idle", ![r].ret = <<NoPrice>>]
                    /\ UNCHANGED << cache, cstat >>
       \/ /\ cstat.key # "prices"
          /\ \/ \E data \in Payloads :
                  /\ cache' = [cache EXCEPT ![cstat.key] =
                                  [data |-> <<data>>, timestamp |-> rd[r].now]]
                  /\ rd' = [rd EXCEPT ![r].pc = "idle", ![r].ret = <<data>>]
                  /\ cstat' = [cstat EXCEPT !.lastRefresh = << rd[r].now >>]
             \/ /\ rd' = [rd EXCEPT ![r].pc = "idle", ![r].ret = Raised]
                /\ UNCHANGED << cache, cstat >>
    /\ UNCHANGED << cfgVars, botVars, riskVars, dayVars, loopVars, retryVars, USE_WEBSOCKET, clock, websocket_symbols >>

\* handle_websocket_messages: a ticker message of the stream is stored with
\* the current time.
handle_websocket_messages ==
    /\ USE_WEBSOCKET
    /\ cstat.key = "prices"
    /\ \E last_price \in StreamPrices :
         cache' = [cache EXCEPT !.prices =
                     << [price |-> last_price, timestamp |-> clock] >>]
    /\ websocket_symbols' = websocket_symbols \cup {"AAAUSDT"}
    /\ cstat' = [cstat EXCEPT !.lastRefresh = <<clock>>,
                              !.from_stream = TRUE,
                              !.overlap = @ \/ Loading(rd)]
    /\ UNCHANGED << cfgVars, botVars, riskVars, dayVars, loopVars, retryVars, USE_WEBSOCKET, clock, rd >>

\* subscribe_symbols, with the connection up.
subscribe_symbols ==
    /\ USE_WEBSOCKET
    /\ cstat.key = "prices"
    /\ "AAAUSDT" \notin websocket_symbols
    /\ websocket_symbols' = websocket_symbols \cup {"AAAUSDT"}
    /\ UNCHANGED << cfgVars, botVars, riskVars, dayVars, loopVars, retryVars, USE_WEBSOCKET, clock, cache, rd, cstat >>

\* time.time() advances.
CacheTick ==
    /\ clock + ClockStep(cstat.key) <= MaxClock(cstat.key)
    /\ clock' = clock + ClockStep(cstat.key)
    /\ UNCHANGED << cfgVars, botVars, riskVars, dayVars, loopVars, retryVars, USE_WEBSOCKET, cache, websocket_symbols,
                    rd, cstat >>

\* cstat: the key the readers of this run ask for, the timestamp of the
\* latest refresh, whether the stream handler made it, and whether a
\* refresh ever overlapped another access.
InitCacheFor(ws, key) ==
    /\ USE_WEBSOCKET = ws
    /\ clock = 0
    /\ cache = NewCache
    /\ websocket_symbols = {}
    /\ rd = [r \in Readers |-> NewReader]
    /\ cstat = [ key |-> key, lastRefresh |-> None, from_stream |-> FALSE,
                 overlap |-> FALSE ]

InitCacheIdle == InitCacheFor(FALSE, "prices")

InitCache == \E ws \in BOOLEAN, key \in CacheKeys : InitCacheFor(ws, key)

NextCache ==
    \/ \E r \in Readers : \/ get_cached_tickers(r)
                          \/ get_cached_balance(r)
                          \/ get_cached_market_price(r)
                          \/ LoaderReturns(r)
    \/ handle_websocket_messages
    \/ subscribe_symbols
    \/ CacheTick

\* -------------------------------------------------- resilient call wrapper

MAX_RETRY == 3
MaxRetries == 3

\* The values "retries" takes: MAX_RETRY is int(os.getenv(...)), unchecked.
RetryCounts == 0..MaxRetries

\* Jitter random.uniform(0, 0.5), in tenths of a second.
Jitters == {0, 4}

RECURSIVE Pow2(_)
Pow2(n) == IF n = 0 THEN 1 ELSE 2 * Pow2(n - 1)

\* wait_time = 2 ** attempt + jitter, in tenths of a second.
WaitTime(attempt, jitter) == 10 * Pow2(attempt) + jitter

\* An error raised by the wrapped function at an attempt is named by the
\* attempt, counted from 1; NoAttemptError is what "raise last_error"
\* raises when last_error is None (a TypeError).
NoAttemptError == <<0>>

\* One call retry_async(func, retries=retries):
\*   pc         "idle", "try" (awaiting func), "sleep" (awaiting
\*              asyncio.sleep), "returned", "raised"
\*   attempt    the loop variable
\*   last_error None or << the attempt whose error it is >>
\*   calls      invocations of func
\*   warnings   failures logged by logger.warning
\*   waits      the wait_time of every sleep, in order
\*   log_errors calls of log_error; error_rows the rows it committed
\*   notified   calls of send_notification
\*   result     the value returned; error the exception raised
\*   site       the place of the program that made the call (None when the
\*              call is examined by itself)
\*   direct     the exchange method was awaited without retry_async; pc is
\*              then "direct" while the method runs
NewCall(retries) ==
    [ pc |-> "idle", retries |-> retries, attempt |-> 0, last_error |-> None,
      calls |-> 0, warnings |-> 0, waits |-> <<>>, log_errors |-> 0,
      error_rows |-> 0, notified |-> 0, result |-> None, error |-> None,
      site |-> None, direct |-> FALSE ]

\* Lines 135-136: log_error is called once, after the loop.
TerminalRecords(c) == 1

\* Lines 134-141, after the loop: log_error (which swallows a failing
\* commit), the notification, and "raise last_error".
Terminal(c, store_ok) ==
    [c EXCEPT !.pc = "raised",
              !.log_errors = @ + TerminalRecords(c),
              !.error_rows = @ + (IF store_ok THEN TerminalRecords(c) ELSE 0),
              !.notified = @ + (IF NOTIFICATION_ENABLED THEN 1 ELSE 0),
              !.error = IF c.last_error = None THEN NoAttemptError
                        ELSE c.last_error]

\* Variant: the loop goes on after a successful attempt.
AfterSuccess_Continue(c, value) ==
    [c EXCEPT !.pc = IF c.attempt + 1 < c.retries THEN "try" ELSE "returned",
              !.attempt = @ + 1,
              !.calls = @ + (IF c.attempt + 1 < c.retries THEN 1 ELSE 0),
              !.result = <<value>>]

\* Line 125: "return await func(...)" leaves the loop.
AfterSuccess(c, value) == [c EXCEPT !.pc = "returned", !.result = <<value>>]

\* Lines 122-125: the call begins; with retries <= 0 the loop body never
\* runs.
BeginCall(c, store_ok) ==
    IF c.retries > 0
    THEN [c EXCEPT !.pc = "try", !.calls = @ + 1]
    ELSE Terminal(c, store_ok)

RetryBegin ==
    /\ call.pc = "idle"
    /\ \E store_ok \in BOOLEAN : call' = BeginCall(call, store_ok)
    /\ UNCHANGED << cfgVars, botVars, riskVars, dayVars, loopVars, cacheVars, NOTIFICATION_ENABLED >>

\* Line 125: func returns.
FuncReturns ==
    /\ call.pc = "try"
    /\ \E value \in Payloads : call' = AfterSuccess(call, value)
    /\ UNCHANGED << cfgVars, botVars, riskVars, dayVars, loopVars, cacheVars, NOTIFICATION_ENABLED >>

\* Lines 126-131: func raises; the failure is logged and the back-off sleep
\* begins.
FuncRaises ==
    /\ call.pc = "try"
    /\ \E jitter \in Jitters :
         call' = [call EXCEPT !.pc = "sleep",
                              !.last_error = << call.attempt + 1 >>,
                              !.warnings = @ + 1,
                              !.waits = Append(@, WaitTime(call.attempt, jitter))]
    /\ UNCHANGED << cfgVars, botVars, riskVars, dayVars, loopVars, cacheVars, NOTIFICATION_ENABLED >>

\* Line 131 returns: the next attempt, or the end of the loop.
SleepEnds ==
    /\ call.pc = "sleep"
    /\ \E store_ok \in BOOLEAN :
         call' = IF call.attempt + 1 < call.retries
                 THEN [call EXCEPT !.pc = "try", !.attempt = @ + 1,
                                   !.calls = @ + 1]
                 ELSE Terminal([call EXCEPT !.attempt = @ + 1], store_ok)
    /\ UNCHANGED << cfgVars, botVars, riskVars, dayVars, loopVars, cacheVars, NOTIFICATION_ENABLED >>

InitRetryIdle ==
    /\ NOTIFICATION_ENABLED = FALSE
    /\ call = NewCall(MAX_RETRY)

InitRetry ==
    /\ NOTIFICATION_ENABLED \in BOOLEAN
    /\ \E retries \in RetryCounts : call = NewCall(retries)

NextRetry == RetryBegin \/ FuncReturns \/ FuncRaises \/ SleepEnds

\* ------------------------------------------ the calls of the exchange

\* Every place where a method of the exchange client is awaited, with the
\* job it belongs to; wrapped says whether the method is handed to
\* retry_async or awaited itself.
CallSites ==
    { [ job |-> "cache", method |-> "fetch_tickers", file |-> "bot.py",
        line |-> 148, wrapped |-> TRUE ],
      [ job |-> "cache", method |-> "fetch_balance", file |-> "bot.py",
        line |-> 157, wrapped |-> TRUE ],
      [ job |-> "cache", method |-> "fetch_ticker", file |-> "bot.py",
        line |-> 174, wrapped |-> TRUE ],
      [ job |-> "enter_positions", method |-> "create_order", file |-> "bot.py",
        line |-> 405, wrapped |-> TRUE ],
      [ job |-> "exit_due", method |-> "create_order", file |-> "bot.py",
        line |-> 481, wrapped |-> TRUE ],
      [ job |-> "check_stoploss_and_take_profit", method |-> "create_order",
        file |-> "bot.py", line |-> 569, wrapped |-> TRUE ],
      [ job |-> "health_check", method |-> "fetch_ticker", file |-> "bot.py",
        line |-> 695, wrapped |-> FALSE ],
      [ job |-> "is_market_safe", method |-> "fetch_ticker", file |-> "config.py",
        line |-> 189, wrapped |-> FALSE ] }

\* A job reaches one of these places: retry_async is entered, or the method
\* is awaited directly.
IssueCall ==
    /\ call.pc = "idle"
    /\ \E site \in CallSites, store_ok \in BOOLEAN :
         call' = IF site.wrapped
                 THEN BeginCall([call EXCEPT !.site = <<site>>], store_ok)
                 ELSE [call EXCEPT !.site = <<site>>, !.direct = TRUE,
                                   !.pc = "direct", !.calls = @ + 1]
    /\ UNCHANGED << cfgVars, botVars, riskVars, dayVars, loopVars, cacheVars, NOTIFICATION_ENABLED >>

\* The method awaited directly returns, or raises into the try/except of
\* its job: no retry, no back-off.
DirectEnds ==
    /\ call.pc = "direct"
    /\ \/ \E value \in Payloads :
            call' = [call EXCEPT !.pc = "returned", !.result = <<value>>]
       \/ call' = [call EXCEPT !.pc = "raised", !.error = <<1>>,
                               !.last_error = <<1>>]
    /\ UNCHANGED << cfgVars, botVars, riskVars, dayVars, loopVars, cacheVars, NOTIFICATION_ENABLED >>

NextCalls == IssueCall \/ DirectEnds \/ FuncReturns \/ FuncRaises \/ SleepEnds

\* ------------------------------------------- risk model, function by function

\* calculate_dynamic_stoploss of config.py, which takes base_threshold (in
\* percent here) as an argument; hours_held is in tenths of an hour and the
\* result is multiplied by SLScale.
\*   time_factor = min(hours_held / 24, 0.8) = TF / 240
\* Variant: the profit lock shrinks as the time factor grows.
ConfigDynamicStoploss_Decay(entry_price, current_price, hours_held, base_threshold) ==
    LET stoploss_price == entry_price * (100 - base_threshold) * 240
        TF == Min(hours_held, 192)
        dynamic_stoploss == SLScale * entry_price
                            + 100 * (current_price - entry_price) * (240 - TF)
                            - entry_price * base_threshold * (240 - TF)
    IN IF current_price > entry_price
       THEN Max(stoploss_price, dynamic_stoploss)
       ELSE stoploss_price

ConfigDynamicStoploss(entry_price, current_price, hours_held, base_threshold) ==
    LET stoploss_price == entry_price * (100 - base_threshold) * 240
        TF == Min(hours_held, 192)
        dynamic_stoploss == SLScale * entry_price
                            + 100 * (current_price - entry_price) * TF
                            - entry_price * base_threshold * (240 - TF)
    IN IF current_price > entry_price
       THEN Max(stoploss_price, dynamic_stoploss)
       ELSE stoploss_price

\* A float: << v >> for a number, NaN for float("nan").  A setting read
\* from the environment is None when float() raises ValueError on its text.
NaN == << 0, 0 >>

\* x <= y and x > y on floats: every comparison with NaN is false.
FloatLe(x, y) == x # NaN /\ y # NaN /\ x[1] <= y[1]

FloatGt(x, y) == x # NaN /\ y # NaN /\ x[1] > y[1]

\* available_balance * stake_percent, the percentage in percent.
FloatShare(available_balance, stake_percent) ==
    IF stake_percent = NaN THEN NaN
    ELSE << (available_balance * stake_percent[1]) \div 100 >>

\* min(x, y) of Python: y when y < x, else x.
PyMin(x, y) == IF FloatGt(x, y) THEN y ELSE x

\* calculate_position_size with its two settings as parameters, the
\* percentage in percent, money in units of 1/4000 USDT (1000 USDT =
\* 4000000).  A ValueError of float() is caught by the outer handler, which
\* returns min(available_balance * 0.1, 1000).
PositionSize(available_balance, stake_percent, max_stake) ==
    IF stake_percent = None \/ max_stake = None
    THEN << Min((available_balance * 10) \div 100, 4000000) >>
    ELSE LET pct == IF FloatLe(stake_percent, <<0>>) \/ FloatGt(stake_percent, <<100>>)
                    THEN <<10>> ELSE stake_percent
             cap == IF FloatLe(max_stake, <<0>>) THEN <<4000000>> ELSE max_stake
         IN PyMin(FloatShare(available_balance, pct), cap)

\* The inputs the functions are evaluated on.
RiskEntryPrices == {100, 8000, 12500}
RiskCurrentPrices == {110, 7000, 10000, 13000, 20000}
HourTenths == {0, 100, 190, 192, 200, 240, 480}
BaseThresholds == {1, 5, 50, 99}
ExitTenths == {0 - 10, 0, 2, 3, 4, 5, 6, 10, 11, 15, 20, 21, 50}
IntervalSettings ==
    { [base |-> 5, quick |-> 1, threshold |-> 10],
      [base |-> 1, quick |-> 1, threshold |-> 10],
      [base |-> 3, quick |-> 2, threshold |-> 10],
      [base |-> 5, quick |-> 1, threshold |-> 4] }
SizeBalances == {0, 400000, 4000000, 20000000}
StakePercents ==
    { None, NaN, <<0 - 5>>, <<0>>, <<10>>, <<50>>, <<100>>, <<150>> }
MaxStakes == { None, NaN, <<0 - 4000>>, <<0>>, <<400000>>, <<4000000>> }

\* risk: the function under evaluation, its arguments, and its results
\* (None before the evaluation).
RiskInputs ==
    { [ fn |-> "stoploss", entry_price |-> e, current_price |-> c,
        h1 |-> h1, h2 |-> h2, base_threshold |-> b ] :
        e \in RiskEntryPrices, c \in RiskCurrentPrices,
        h1 \in HourTenths, h2 \in HourTenths, b \in BaseThresholds }
    \cup
    { [ fn |-> "interval", t1 |-> t1, t2 |-> t2, cfg |-> g ] :
        t1 \in ExitTenths, t2 \in ExitTenths, g \in IntervalSettings }
    \cup
    { [ fn |-> "size", available_balance |-> a, stake_percent |-> p,
        max_stake |-> m ] :
        a \in SizeBalances, p \in StakePercents, m \in MaxStakes }
    \cup
    { [ fn |-> "top10_symbols", raw |-> raw, max_concurrent_symbols |-> n ] :
        raw \in TickerOutcomes, n \in ConcurrentLimits }

\* Both stop-loss functions at the two holding times: the one of bot.py
\* takes whole hours and the threshold of get_stoploss_threshold.
EvalStopLoss ==
    /\ risk.out = None
    /\ risk.in.fn = "stoploss"
    /\ LET a == risk.in
       IN risk' = [risk EXCEPT !.out = <<
            [ cfg |-> << ConfigDynamicStoploss(a.entry_price, a.current_price,
                                               a.h1, a.base_threshold),
                         ConfigDynamicStoploss(a.entry_price, a.current_price,
                                               a.h2, a.base_threshold) >>,
              bot |-> << calculate_dynamic_stoploss(a.entry_price, a.current_price,
                                                    a.h1 \div 10),
                         calculate_dynamic_stoploss(a.entry_price, a.current_price,
                                                    a.h2 \div 10) >> ] >>]
    /\ UNCHANGED << cfgVars, botVars, cacheVars, retryVars, dayVars, loopVars >>

\* get_check_interval at the two remaining times.
EvalInterval ==
    /\ risk.out = None
    /\ risk.in.fn = "interval"
    /\ LET a == risk.in
       IN risk' = [risk EXCEPT !.out = <<
            << CheckInterval(a.t1, a.cfg.base, a.cfg.quick, a.cfg.threshold),
               CheckInterval(a.t2, a.cfg.base, a.cfg.quick, a.cfg.threshold) >> >>]
    /\ UNCHANGED << cfgVars, botVars, cacheVars, retryVars, dayVars, loopVars >>

\* calculate_position_size.
EvalSize ==
    /\ risk.out = None
    /\ risk.in.fn = "size"
    /\ LET a == risk.in
       IN risk' = [risk EXCEPT !.out =
            << PositionSize(a.available_balance, a.stake_percent, a.max_stake) >>]
    /\ UNCHANGED << cfgVars, botVars, cacheVars, retryVars, dayVars, loopVars >>

\* top10_symbols.
EvalSelect ==
    /\ risk.out = None
    /\ risk.in.fn = "top10_symbols"
    /\ risk' = [risk EXCEPT !.out =
            << top10_symbols(risk.in.raw, risk.in.max_concurrent_symbols) >>]
    /\ UNCHANGED << cfgVars, botVars, cacheVars, retryVars, dayVars, loopVars >>

InitRiskIdle == risk = [ in |-> [fn |-> "none"], out |-> None ]

InitRisk == \E a \in RiskInputs : risk = [ in |-> a, out |-> None ]

NextRisk == EvalStopLoss \/ EvalInterval \/ EvalSize \/ EvalSelect

\* ------------------------------------- the monitor around one midnight

\* Minutes, counted from 00:00 UTC of the day examined.  The first cycle
\* starts shortly before midnight; cycles are followed until MaxMinute.
MaxMinute == 8
StartMinutes == (0 - 6)..(0 - 1)

\* min(exit_at) of the open positions, which stay open over these minutes:
\* none, one that is due 20 minutes after midnight, one due 5 hours after.
ClosestExits == { None, <<20>>, <<300>> }

\* Line 617: now.hour == 0 and 0 <= now.minute < 5.
InPerformanceWindow(t) == 0 <= t /\ t < 5

\* get_check_interval in minutes, for a time to the exit in minutes.  The
\* division is exact for the exits above: they stay in the segments where
\* the interval is the quick or the base interval.
IntervalMinutes(minutes_to_exit) ==
    CheckInterval(minutes_to_exit, BASE_CHECK_INTERVAL_MINUTES,
                  QUICK_CHECK_INTERVAL_MINUTES, 6 * TIME_THRESHOLD_HOURS)
        \div IntervalScale(6 * TIME_THRESHOLD_HOURS)

\* day: t is the start of the next cycle; in_window counts the cycles that
\* started inside the window, snapshots the rows log_performance committed.
NewDay(t, exit) == [ t |-> t, exit |-> exit, in_window |-> 0, snapshots |-> 0 ]

\* One cycle of schedule_dynamic_checks, from line 611 to the start of the
\* next cycle: the snapshot when the cycle starts inside the window
\* (log_performance swallows a failed commit), then either the next check
\* at now + next_check_minutes (lines 632-661) or, when lines 644-648 raise,
\* the retry after BASE_CHECK_INTERVAL_MINUTES (663-668).
DailyCycle ==
    /\ day.t < MaxMinute
    /\ \E store_ok \in BOOLEAN, raises \in BOOLEAN :
        LET inside == InPerformanceWindow(day.t)
            next_check_minutes ==
                IF day.exit = None THEN BASE_CHECK_INTERVAL_MINUTES
                ELSE IntervalMinutes(day.exit[1] - day.t)
            delay == IF raises THEN BASE_CHECK_INTERVAL_MINUTES
                     ELSE next_check_minutes
        IN /\ raises => day.exit # None
           /\ ~inside => store_ok
           /\ day' = [day EXCEPT
                        !.t = @ + delay,
                        !.in_window = @ + (IF inside THEN 1 ELSE 0),
                        !.snapshots = @ + (IF inside /\ store_ok THEN 1 ELSE 0)]
    /\ UNCHANGED << cfgVars, botVars, cacheVars, retryVars, riskVars, loopVars >>

InitDayIdle == day = NewDay(MaxMinute, None)

InitDay == \E t \in StartMinutes, exit \in ClosestExits : day = NewDay(t, exit)

NextDay == DailyCycle

\* ------------------------------------------------ jobs on the event loop

\* The coroutines main() puts on the one asyncio event loop: the monitor
\* chain, the daily entry job and the hourly health check.
Jobs == {"monitor", "entry", "health"}

\* event_loop.at[j]: where job j is.
\*   idle   not running
\*   await  suspended at an awaited exchange call
\*   sleep  suspended at the asyncio.sleep of retry_async
\*   post   inside send_notification, a requests.post on the loop's thread
\* event_loop.due[j]: the scheduled time of j has come and j has not started.
\* event_loop.tries[j]: failed attempts of the running call.
NewLoop ==
    [ at |-> [j \in Jobs |-> "idle"], due |-> [j \in Jobs |-> FALSE],
      tries |-> [j \in Jobs |-> 0] ]

\* Variant: the delivery is awaited like the exchange calls.
HoldsLoop_Async(at) == FALSE

\* Whether a job at this point keeps the thread of the event loop: the
\* exchange calls and the retry wait are awaited, requests.post is a plain
\* call inside the coroutine and returns only with the response.
HoldsLoop(at) == at = "post"

LoopFree == \A j \in Jobs : ~HoldsLoop(event_loop.at[j])

\* The event loop can start job j now.
CanStart(j) == event_loop.due[j] /\ event_loop.at[j] = "idle" /\ LoopFree

\* health_check awaits exchange.fetch_ticker directly, the other jobs go
\* through retry_async.
Wrapped(j) == j # "health"

\* The scheduled time of a job arrives (cron 00:01, the hourly interval,
\* the run_time of the monitor's next check).
TimerDue(j) ==
    /\ event_loop.at[j] = "idle"
    /\ ~event_loop.due[j]
    /\ event_loop' = [event_loop EXCEPT !.due[j] = TRUE]
    /\ UNCHANGED << cfgVars, botVars, cacheVars, retryVars, riskVars, dayVars >>

\* The loop starts the job, which runs to its first exchange call.
JobStarts(j) ==
    /\ CanStart(j)
    /\ event_loop' = [event_loop EXCEPT !.at[j] = "await", !.due[j] = FALSE, !.tries[j] = 0]
    /\ UNCHANGED << cfgVars, botVars, cacheVars, retryVars, riskVars, dayVars >>

\* Where a job goes when it has something to report.
Report == IF NOTIFICATION_ENABLED THEN "post" ELSE "idle"

\* The awaited exchange call completes and the loop resumes the job: on
\* success the monitor and the entry job report the trade; on failure
\* retry_async sleeps, and the health check reports at once.
CallDone(j) ==
    /\ event_loop.at[j] = "await"
    /\ LoopFree
    /\ \E ok \in BOOLEAN :
        event_loop' = [event_loop EXCEPT
            !.at[j] = IF ok THEN (IF Wrapped(j) THEN Report ELSE "idle")
                      ELSE IF Wrapped(j) THEN "sleep" ELSE Report,
            !.tries[j] = IF ok THEN @ ELSE @ + 1]
    /\ UNCHANGED << cfgVars, botVars, cacheVars, retryVars, riskVars, dayVars >>

\* The retry wait ends: the next attempt, or after the last one the
\* report of the failure.
SleepDone(j) ==
    /\ event_loop.at[j] = "sleep"
    /\ LoopFree
    /\ event_loop' = [event_loop EXCEPT
            !.at[j] = IF event_loop.tries[j] < MAX_RETRY THEN "await" ELSE Report]
    /\ UNCHANGED << cfgVars, botVars, cacheVars, retryVars, riskVars, dayVars >>

\* requests.post returns (there is no timeout argument: it may never).
PostDone(j) ==
    /\ event_loop.at[j] = "post"
    /\ event_loop' = [event_loop EXCEPT !.at[j] = "idle"]
    /\ UNCHANGED << cfgVars, botVars, cacheVars, retryVars, riskVars, dayVars >>

InitLoopIdle == event_loop = NewLoop

NextLoop ==
    \E j \in Jobs :
        TimerDue(j) \/ JobStarts(j) \/ CallDone(j) \/ SleepDone(j) \/ PostDone(j)

\* ----------------------------------------------------------------- clock

Tick ==
    /\ now < MaxTime
    /\ now' = now + 1
    /\ UNCHANGED << cfgVars, libVars, trades, hist, pc, next_check_task, cyc, entry >>

\* --------------------------------------------------------- specification

\* main(): next_check_task is None and the first cycle is started directly.
InitBotCfg(c) ==
    /\ DRY_RUN = c[1]
    /\ STOP_LOSS_ENABLED = c[2]
    /\ TAKE_PROFIT_ENABLED = c[3]
    /\ now = 0
    /\ trades = <<>>
    /\ hist = <<>>
    /\ pc = [t \in Tasks |-> IF t = 1 THEN "start" ELSE "free"]
    /\ next_check_task = 0
    /\ cyc = [t \in Tasks |-> NewCycle]
    /\ entry = [ result |-> "none", selected |-> 0, tried |-> 0, orders |-> 0,
                 made |-> 0,
                 attempted |-> <<>>, failed |-> {} ]

InitBot == \E c \in Configs : InitBotCfg(c)

\* The settings bot.py has when the environment sets none of them.
DefaultConfig == <<TRUE, TRUE, FALSE>>

Init ==
    InitBot /\ InitCacheIdle /\ InitRetryIdle /\ InitRiskIdle /\ InitDayIdle /\ InitLoopIdle

Monitor(t) ==
    \/ StartCycle(t)
    \/ CheckOne(t)
    \/ ExitDue(t)
    \/ ExitOne(t)
    \/ ScheduleCheck(t)
    \/ CycleError(t)
    \/ Retry(t)
    \/ scheduled_check(t)

Next ==
    \/ \E t \in Tasks : Monitor(t)
    \/ enter_positions
    \/ Tick

Spec == Init /\ [][Next]_vars

\* Fairness of the event loop: a monitor task that can take a step
\* eventually takes one (timers fire, awaited calls return or time out).
FairSpec == Spec /\ \A t \in Tasks : WF_vars(Monitor(t))

\* ------------------------------------------------------- the three jobs

\* The place where health_check awaits the exchange.
HealthSite == CHOOSE site \in CallSites : site.job = "health_check"

\* What a run of health_check leaves behind: the outcome of its one direct
\* call and, when it raised, the error record and the notification.
HealthCall(ok) ==
    [ NewCall(0) EXCEPT
        !.site = << HealthSite >>, !.direct = TRUE, !.calls = 1,
        !.pc = IF ok THEN "returned" ELSE "raised",
        !.error = IF ok THEN None ELSE <<1>>,
        !.last_error = IF ok THEN None ELSE <<1>>,
        !.log_errors = IF ok THEN 0 ELSE 1,
        !.error_rows = IF ok THEN 0 ELSE 1,
        !.notified = IF ~ok /\ NOTIFICATION_ENABLED THEN 1 ELSE 0 ]

\* Variant: the health check cancels the pending run of the monitor.
health_check_Cancel ==
    /\ \E ok \in BOOLEAN : call' = HealthCall(ok)
    /\ next_check_task' = 0
    /\ pc' = Cancel(pc, next_check_task, 0)
    /\ UNCHANGED << cfgVars, cacheVars, riskVars, dayVars, loopVars,
                    NOTIFICATION_ENABLED, now, trades, hist, cyc, entry >>

\* health_check, lines 691-722: one ticker request, a look at the age of
\* the cache entries, log lines; on an exception log_error and the
\* notification.  It assigns no global of the monitor.
health_check ==
    /\ \E ok \in BOOLEAN : call' = HealthCall(ok)
    /\ UNCHANGED << cfgVars, botVars, cacheVars, riskVars, dayVars, loopVars,
                    NOTIFICATION_ENABLED >>

\* The jobs main() starts: the monitor chain as a task, the entry job and
\* the health check from their own lines of the scheduler.
NextJobs ==
    \/ \E t \in Tasks : Monitor(t)
    \/ enter_positions
    \/ health_check
    \/ Tick

InitSpecJobs ==
    InitBotCfg(DefaultConfig) /\ InitCacheIdle /\ InitRetryIdle /\ InitRiskIdle
    /\ InitDayIdle /\ InitLoopIdle

SpecJobs == InitSpecJobs /\ [][NextJobs]_vars

\* ---------------------------------------------- the store used directly

MaxCloses == 2
PnlArgs == { None, <<-100000>>, <<100000>> }

\* log_trade called by a client of the store.
api_log_trade ==
    /\ Len(trades) < MaxPos
    /\ \E price \in EntryPrices :
        /\ trades' = log_trade(trades,
                        NewTrade("AAAUSDT", DRY_STAKE_TOTAL \div price, price,
                                 DRY_STAKE_TOTAL, now + 1,
                                 (price * (100 - get_stoploss_threshold)) \div 100,
                                 0, now),
                        TRUE)
        /\ hist' = Append(hist, NewHist)
    /\ UNCHANGED << cfgVars, libVars, now, pc, next_check_task, cyc, entry >>

\* mark_closed called by a client of the store, on any row.
api_mark_closed ==
    /\ \E id \in 1..Len(trades), pnl \in PnlArgs, close_reason \in Reasons :
        LET row == mark_closed(trades[id], pnl, close_reason)
        IN /\ hist[id].closes < MaxCloses
           /\ trades' = [trades EXCEPT ![id] = row]
           /\ hist' = [hist EXCEPT ![id].closes = @ + 1,
                                   ![id].first = IF @ = None
                                                 THEN <<CloseFields(row)>> ELSE @]
    /\ UNCHANGED << cfgVars, libVars, now, pc, next_check_task, cyc, entry >>

NextStore == api_log_trade \/ api_mark_closed

SpecStore == Init /\ [][NextStore]_vars

\* The quote cache used by readers of one key.
InitSpecCache ==
    InitBotCfg(DefaultConfig) /\ InitCache /\ InitRetryIdle /\ InitRiskIdle
    /\ InitDayIdle /\ InitLoopIdle

SpecCache == InitSpecCache /\ [][NextCache]_vars

\* One call of retry_async.
InitSpecRetry ==
    InitBotCfg(DefaultConfig) /\ InitCacheIdle /\ InitRetry /\ InitRiskIdle
    /\ InitDayIdle /\ InitLoopIdle

SpecRetry == InitSpecRetry /\ [][NextRetry]_vars

\* The calls of the exchange client by the jobs.
SpecCalls == InitSpecRetry /\ [][NextCalls]_vars

\* The monitor around one midnight.
InitSpecDay ==
    InitBotCfg(DefaultConfig) /\ InitCacheIdle /\ InitRetryIdle /\ InitRiskIdle
    /\ InitDay /\ InitLoopIdle

SpecDay == InitSpecDay /\ [][NextDay]_vars

\* The entry job with the instrument selector.
NextEntry == EntryCycle

SpecEntry == Init /\ [][NextEntry]_vars

\* The entry job behind the market gate.
SpecGate == Init /\ [][NextGate]_vars

\* The functions of the risk model and the selector, each applied to its
\* inputs.
InitSpecRisk ==
    InitBotCfg(DefaultConfig) /\ InitCacheIdle /\ InitRetryIdle /\ InitRisk
    /\ InitDayIdle /\ InitLoopIdle

SpecRisk == InitSpecRisk /\ [][NextRisk]_vars

\* ------------------------------------- one position under the monitor

MaxHeld == 30
WatchEntryPrices == {10000, 12500}
WatchPrices == {9500, 9600, 9800, 10200, 10500, 10900, 12000}
HourSteps == {1, 5, 12}

\* The position as enter_positions logs it at hour 0.
WatchedTrade(price) ==
    NewTrade("AAAUSDT", 1, price, price, MaxHeld + 1,
             (price * (100 - get_stoploss_threshold)) \div 100,
             IF TAKE_PROFIT_ENABLED
             THEN (price * (100 + TAKE_PROFIT_THRESHOLD)) \div 100
             ELSE 0,
             0)

\* The stop-loss level of one pass of the loop of
\* check_stoploss_and_take_profit, multiplied by SLScale; None when the
\* pass computes none.
StopLossLevel(tr, price, t) ==
    IF STOP_LOSS_ENABLED /\ tr.stoploss_price # 0
    THEN << calculate_dynamic_stoploss(tr.price, price, t - tr.created) >>
    ELSE None

\* One monitor cycle over the position: the clock has moved on, a price is
\* read, the level is computed and the triggers are tested; a triggered
\* position is closed unless the order or the store raised.
WatchCycle ==
    /\ risk.in.fn = "monitor"
    /\ ~risk.out.closed
    /\ \E dh \in HourSteps, price \in WatchPrices \cup {NoPrice}, close_ok \in BOOLEAN :
        LET tr == risk.in.tr
            t == risk.out.hours + dh
            level == StopLossLevel(tr, price, t)
            trigger == TriggerReason(StopLossHit(tr, price, t), TakeProfitHit(tr, price))
        IN /\ t <= MaxHeld
           /\ risk' = [risk EXCEPT !.out =
                IF SkipsTrade(price)
                THEN [ @ EXCEPT !.hours = t, !.price = price, !.cycles = @ + 1 ]
                ELSE [ hours |-> t, price |-> price, level |-> level,
                       hit |-> StopLossHit(tr, price, t),
                       cycles |-> @.cycles + 1,
                       closed |-> trigger # "none" /\ close_ok ]]
    /\ UNCHANGED << cfgVars, botVars, cacheVars, retryVars, dayVars, loopVars >>

InitWatch ==
    \E e \in WatchEntryPrices :
        risk = [ in |-> [ fn |-> "monitor", tr |-> WatchedTrade(e) ],
                 out |-> [ hours |-> 0, price |-> NoPrice, level |-> None,
                           hit |-> FALSE, cycles |-> 0, closed |-> FALSE ] ]

NextWatch == WatchCycle

InitSpecWatch ==
    /\ \E c \in { g \in Configs : g[2] } : InitBotCfg(c)
    /\ InitCacheIdle /\ InitRetryIdle /\ InitWatch /\ InitDayIdle /\ InitLoopIdle

SpecWatch == InitSpecWatch /\ [][NextWatch]_vars

\* The three jobs on the event loop, with and without notifications.
InitSpecLoop ==
    /\ InitBotCfg(DefaultConfig) /\ InitCacheIdle
    /\ NOTIFICATION_ENABLED \in BOOLEAN /\ call = NewCall(MAX_RETRY)
    /\ InitRiskIdle /\ InitDayIdle /\ InitLoopIdle

SpecLoop == InitSpecLoop /\ [][NextLoop]_vars

\* ----------------------------------------------------------- properties

Ids == 1..Len(trades)
Pending == {t \in Tasks : pc[t] = "sleep"}
InCycle == {t \in Tasks : pc[t] \in {"start", "check", "exit_due", "exit",
                                     "step4", "fallback"}}
PerTrade == {"check", "exit_due", "exit"}

\* C1: at most one scheduled, not yet fired monitor run exists, and it is
\* the one held in next_check_task.
C1_OnePending ==
    /\ Cardinality(Pending) <= 1
    /\ \A t \in Pending : next_check_task = t

\* A second or later run is pending: its handle replaced an earlier one.
C1_Witness ==
    /\ pc[1] = "sleep"
    /\ next_check_task = 1
    /\ Len(trades) > 0

\* C2: at most one monitor evaluation cycle is in flight (from its start
\* to the scheduling of the next run, the fallback delay included).
C2_OneCycle == Cardinality(InCycle) <= 1

\* A cycle waits in its fallback delay after the entry job ran and the
\* clock advanced.
C2_Witness ==
    /\ \E t \in Tasks : pc[t] = "fallback"
    /\ entry.result = "done"
    /\ Len(trades) = MaxPos
    /\ now > 0

\* C3: the monitor chain never stops: again and again a monitor cycle
\* starts.
C3_ChainLives == []<>(\E t \in Tasks : pc[t] = "start")

\* A cycle that raised is about to be retried by the task that is itself
\* held in next_check_task.
C3_Witness ==
    \E t \in Tasks : /\ pc[t] = "start"
                     /\ cyc[t].snap # <<>>
                     /\ next_check_task = t

\* C4: a position is OPEN when created, no record is ever removed, a CLOSED
\* position stays CLOSED, has a close reason, and was closed exactly once.
C4_Lifecycle ==
    [][ /\ Len(trades') >= Len(trades)
        /\ \A i \in 1..Len(trades') :
            /\ i > Len(trades) => trades'[i].closed = 0
            /\ i <= Len(trades) /\ trades[i].closed = 1 => trades'[i].closed = 1
            /\ trades'[i].closed = 1 => /\ trades'[i].close_reason # None
                                        /\ hist'[i].closes = 1
            /\ trades'[i].closed = 0 => hist'[i].closes = 0 ]_vars

\* One position was closed, the other is still open.
C4_Witness ==
    /\ Len(trades) = 2
    /\ trades[1].closed = 1
    /\ hist[1].closes = 1
    /\ trades[2].closed = 0

\* C5: a close of a position that is already CLOSED leaves status, close
\* reason, P&L and P&L% as the first close set them.
C5_SecondCloseNoOp ==
    \A i \in Ids : hist[i].first # None => CloseFields(trades[i]) = hist[i].first[1]

\* C6: the close reason the monitor persists is the trigger that fired.
C6_ReasonIsTrigger ==
    \A i \in Ids : hist[i].ev # None =>
        trades[i].close_reason = << hist[i].ev[1].trigger >>

\* C7: stop-loss is checked before take-profit and both before expiry, and
\* the first match decides: a close for which the stop-loss and the
\* take-profit condition both held is a stop-loss close, and a close of a
\* due position for which one of them held is not a time-expiry close.
C7_FirstMatchWins ==
    \A i \in Ids : hist[i].ev # None =>
        LET ev == hist[i].ev[1]
        IN /\ ev.sl /\ ev.tp => ev.trigger = "stoploss"
           /\ (ev.sl \/ ev.tp) /\ ev.due => ev.trigger # "time_expiry"

\* C8: in one cycle at most one sell order is placed and at most one close
\* is recorded per position.
C8_OncePerCycle ==
    \A t \in Tasks : \A i \in Ids :
        /\ Count(cyc[t].sold, i) <= 1
        /\ Count(cyc[t].shut, i) <= 1

\* C9: an exception raised for one position ends neither loop and does not
\* keep the cycle from step 4: both loops visit every trade they were
\* given, and from the per-position phases the cycle only moves on towards
\* step 4.
C9_Isolation ==
    /\ [](\A t \in Tasks :
            /\ pc[t] = "exit_due" /\ (STOP_LOSS_ENABLED \/ TAKE_PROFIT_ENABLED)
                  => cyc[t].visited = Range(cyc[t].snap)
            /\ pc[t] = "step4" => cyc[t].expired = Range(cyc[t].due))
    /\ [][\A t \in Tasks : pc[t] \in PerTrade => pc'[t] \in PerTrade \cup {"step4"}]_vars

\* The order for the first of two positions failed, and the cycle still
\* visited both and reached step 4.
C9_Witness ==
    \E t \in Tasks : /\ pc[t] = "step4"
                     /\ Len(cyc[t].snap) = 2
                     /\ cyc[t].snap[1] \in cyc[t].errs
                     /\ cyc[t].visited = Range(cyc[t].snap)

\* C10: an evaluation that finds no price leaves the position OPEN, places
\* no order, records no close and does not leave the per-position phases
\* other than towards step 4; and a cycle starts from all OPEN positions.
C10_Deferred ==
    [][\A t \in Tasks :
        /\ cyc'[t].deferred # 0 /\ cyc'[t] # cyc[t]
              => /\ trades' = trades
                 /\ hist' = hist
                 /\ trades'[cyc'[t].deferred].closed = 0
                 /\ pc'[t] \in PerTrade \cup {"step4"}
        /\ pc[t] = "start" /\ pc'[t] # "start"
              => Range(cyc'[t].snap) = {i \in Ids : trades[i].closed = 0} ]_vars

\* A position whose price was unavailable is still open at step 4, with no
\* order placed for it.
C10_Witness ==
    \E t \in Tasks : /\ pc[t] = "step4"
                     /\ cyc[t].deferred # 0
                     /\ trades[cyc[t].deferred].closed = 0
                     /\ hist[cyc[t].deferred].sells = 0
                     /\ ~DRY_RUN

\* C11: step 4 derives the delay of the next run from the nearest planned
\* exit among the positions of the cycle that are still OPEN when step 4
\* runs: whenever a cycle that still has such a position schedules its
\* successor, the successor's delay is nextCheckInterval of that position's
\* remaining time.
C11_IntervalFromOpen ==
    [][\A t \in Tasks :
        LET open == {i \in Range(cyc[t].snap) : trades[i].closed = 0}
        IN pc[t] = "step4" /\ pc'[t] = "done" /\ open # {}
           => \A n \in Tasks :
                pc'[n] = "sleep" =>
                  cyc'[n].wait =
                    get_check_interval(10 * (MinExit(trades, open) - cyc[t].cnow))
      ]_vars

\* C12: under sequential access, a read made less than ttl after the
\* latest refresh of its key invokes no loader and returns the stored
\* value, a read made more than ttl after it invokes the loader, and a
\* refresh by a read comes more than ttl after the refresh before it.
C12_OneLoadPerWindow ==
    [][\A r \in Readers :
        cstat.lastRefresh # None /\ ~cstat'.overlap =>
          LET age == clock - cstat.lastRefresh[1]
          IN /\ rd[r].pc = "idle" /\ rd'[r] # rd[r] /\ age < TTL(cstat.key)
                  => /\ rd'[r].pc = "idle"
                     /\ rd'[r].ret = Stored(cache, cstat.key)
             /\ rd[r].pc = "idle" /\ rd'[r] # rd[r] /\ age > TTL(cstat.key)
                  => rd'[r].pc = "load"
             /\ rd[r].pc = "load" /\ cache' # cache
                  => rd[r].now - cstat.lastRefresh[1] > TTL(cstat.key)
      ]_vars

\* After a refresh one reader was served from the cache, and later, the
\* entry expired, the other reader is loading it again.
C12_Witness ==
    /\ ~cstat.overlap
    /\ cstat.lastRefresh # None
    /\ rd[1].pc = "idle"
    /\ rd[1].now > cstat.lastRefresh[1]
    /\ rd[1].ret = Stored(cache, cstat.key)
    /\ rd[2].pc = "load"
    /\ rd[2].now - cstat.lastRefresh[1] > TTL(cstat.key)

\* C13: a call whose function failed k times and then succeeded, k below
\* the number of attempts allowed, returned that result after exactly k + 1
\* invocations, logged exactly k failures, and made no terminal record and
\* no notification.
C13_SuccessAfterFailures ==
    /\ call.pc = "returned" =>
         /\ call.result # None
         /\ call.warnings < call.retries
         /\ call.calls = call.warnings + 1
         /\ call.log_errors = 0 /\ call.error_rows = 0 /\ call.notified = 0
    /\ call.result # None => call.pc = "returned"

\* Two attempts failed and the third returned.
C13_Witness ==
    /\ call.pc = "returned"
    /\ call.warnings = 2
    /\ call.calls = 3

\* C14: a call whose function failed at every one of the maxAttempts
\* attempts invoked it exactly maxAttempts times, raised the error of the
\* last attempt, and recorded the terminal failure exactly once; for every
\* maxAttempts that can be configured.
C14_TerminalFailure ==
    call.pc = "raised" =>
        /\ call.calls = call.retries
        /\ call.warnings = call.calls
        /\ call.error # NoAttemptError
        /\ call.error = call.last_error
        /\ call.last_error = << call.calls >>
        /\ call.log_errors = 1
        /\ call.error_rows <= 1

\* C15: for a current price above the entry price, holding times up to
\* 48 h and a threshold in (0,1), the stop-loss is at least
\* entryPrice * (1 - baseThreshold), and it does not decrease when the
\* holding time grows.
C15_StopLossFloorMonotone ==
    risk.out # None /\ risk.in.fn = "stoploss"
    /\ risk.in.current_price > risk.in.entry_price =>
        LET a == risk.in
            o == risk.out[1]
        IN /\ \A k \in 1..2 :
                /\ o.cfg[k] >= a.entry_price * (100 - a.base_threshold) * 240
                /\ o.bot[k] >= a.entry_price * (100 - get_stoploss_threshold) * 240
           /\ a.h1 <= a.h2 => o.cfg[1] <= o.cfg[2] /\ o.bot[1] <= o.bot[2]

\* The stop-loss of a position in profit rose with the holding time.
C15_Witness ==
    /\ risk.out # None
    /\ risk.in.fn = "stoploss"
    /\ risk.in.current_price > risk.in.entry_price
    /\ risk.in.h1 < risk.in.h2
    /\ risk.out[1].cfg[1] < risk.out[1].cfg[2]
    /\ risk.out[1].bot[1] < risk.out[1].bot[2]

\* C16: with baseInterval >= quickInterval > 0 and threshold > 0 the check
\* interval does not decrease when the time to the exit grows.
C16_IntervalMonotone ==
    risk.out # None /\ risk.in.fn = "interval" /\ risk.in.t1 <= risk.in.t2
        => risk.out[1][1] <= risk.out[1][2]

\* C17: with baseInterval >= quickInterval > 0 and threshold > 0 the check
\* interval lies within [quickInterval, baseInterval] for every time to the
\* exit.
C17_IntervalBounded ==
    risk.out # None /\ risk.in.fn = "interval" =>
        \A k \in 1..2 :
            /\ risk.out[1][k]
                 >= IntervalScale(risk.in.cfg.threshold) * risk.in.cfg.quick
            /\ risk.out[1][k]
                 <= IntervalScale(risk.in.cfg.threshold) * risk.in.cfg.base

\* C20: the position size is min(availableBalance * stakePercent, maxStake),
\* with 0.1 in place of a stakePercent outside (0,1] and 1000 in place of a
\* maxStake <= 0, each independently; for a setting that is not a number a
\* size is still returned.
C20_PositionSize ==
    risk.out # None /\ risk.in.fn = "size" =>
        LET a == risk.in
            p == a.stake_percent
            m == a.max_stake
            pct == IF FloatGt(p, <<0>>) /\ FloatLe(p, <<100>>) THEN p[1] ELSE 10
            cap == IF FloatLe(m, <<0>>) THEN 4000000 ELSE m[1]
        IN /\ Len(risk.out[1]) = 1
           /\ p # None /\ m # None /\ m # NaN =>
                risk.out[1] = << Min((a.available_balance * pct) \div 100, cap) >>

\* C18: an entry cycle whose market-safety gate answers unsafe selects no
\* instrument, runs no per-instrument step, places no buy order and creates
\* no position.
C18_UnsafeGateNoEntry ==
    [][entry' # entry /\ entry'.result = "unsafe" =>
        /\ entry'.selected = 0
        /\ entry'.tried = 0
        /\ entry'.orders = 0
        /\ entry'.made = 0
        /\ trades' = trades
        /\ hist' = hist]_vars

\* An unsafe entry cycle after a cycle that created a position.
C18_Witness ==
    /\ entry.result = "unsafe"
    /\ entry.made = 0
    /\ trades # <<>>

\* C19: with DRY_RUN on, no order is sent: not by the entry job, not by the
\* stop-loss/take-profit loop, not by the expiry loop.
C19_DryRunNoOrder ==
    DRY_RUN =>
        /\ entry.orders = 0
        /\ \A i \in 1..Len(hist) : hist[i].sells = 0
        /\ \A t \in Tasks : cyc[t].sold = <<>> /\ cyc[t].errs = {}

\* In dry-run the entry job created a position, and the monitor closed one
\* on a stop-loss and one at expiry.
C19_Witness ==
    /\ DRY_RUN
    /\ entry.made > 0
    /\ \E i \in 1..Len(hist) :
         hist[i].ev # <<>> /\ hist[i].ev[1].trigger = "stoploss"
    /\ \E i \in 1..Len(hist) :
         hist[i].ev # <<>> /\ hist[i].ev[1].trigger = "time_expiry"

\* C21: the selector answers the USDT instruments by descending quote
\* volume, instruments of equal volume by ascending id, cut to the first n.
C21_RankedTieById ==
    risk.out # None /\ risk.in.fn = "top10_symbols" /\ ~risk.in.raw.raised =>
        LET raw == risk.in.raw.items
            usdt == {i \in 1..Len(raw) : EndsWithUSDT(raw[i].sym)}
            out == risk.out[1]
            n == Min(risk.in.max_concurrent_symbols, 10)
            id == [k \in TickerIds |-> CASE k = "AAA/USDT" -> 1
                                         [] k = "BBB/USDT" -> 2
                                         [] k = "CCC/BTC" -> 3]
            Before(i, j) ==
                \/ raw[i].quoteVolume[1] > raw[j].quoteVolume[1]
                \/ /\ raw[i].quoteVolume[1] = raw[j].quoteVolume[1]
                   /\ id[raw[i].sym] < id[raw[j].sym]
            place == [i \in usdt |-> 1 + Cardinality({j \in usdt : Before(j, i)})]
        IN (\A i \in usdt : raw[i].quoteVolume # None) =>
            /\ Len(out) = Min(n, Cardinality(usdt))
            /\ \A i \in usdt :
                 place[i] <= Len(out) => out[place[i]] = RemoveSlash(raw[i].sym)

\* C22: when the ticker fetch raises or the ranking raises, the selector
\* answers the empty list, and the entry cycle that gets it places no order
\* and creates no position.
C22_SourceFailureEmptyCycle ==
    [][/\ risk'.in.fn = "top10_symbols"
       /\ entry'.result # "unsafe"
       /\ \/ risk'.in.raw.raised
          \/ RankingRaises(SelectSeq(risk'.in.raw.items,
                                     LAMBDA kv : EndsWithUSDT(kv.sym)))
       => /\ risk'.out = << <<>> >>
          /\ entry'.result = "empty"
          /\ entry'.tried = 0
          /\ entry'.orders = 0
          /\ entry'.made = 0
          /\ trades' = trades
          /\ hist' = hist]_vars

\* The ticker fetch raised in a cycle that followed one which created a
\* position.
C22_Witness ==
    /\ risk.in.fn = "top10_symbols"
    /\ risk.in.raw.raised
    /\ entry.result = "empty"
    /\ trades # <<>>

\* C23: an entry cycle visits every selected instrument exactly once,
\* whatever happened to the instruments before it, and an instrument whose
\* buy order failed gets no position.
C23_EntryIsolation ==
    [][entry' # entry /\ entry'.result = "done" =>
        /\ entry'.attempted = risk'.out[1]
        /\ entry'.tried = Len(risk'.out[1])
        /\ \A i, j \in 1..Len(entry'.attempted) :
             entry'.attempted[i] = entry'.attempted[j] => i = j
        /\ \A i \in (Len(trades) + 1)..Len(trades') :
             trades'[i].symbol \notin entry'.failed
        /\ entry'.made <= entry'.tried - Cardinality(entry'.failed)]_vars

\* The order of the first of two instruments failed and the second got its
\* position.
C23_Witness ==
    /\ entry.result = "done"
    /\ Len(entry.attempted) = 2
    /\ entry.failed = { entry.attempted[1] }
    /\ entry.made = 1
    /\ trades[Len(trades)].symbol = entry.attempted[2]

\* C24: for every day exactly one performance snapshot is persisted: never
\* more than one, and one once the cycles have passed the minutes after
\* midnight.
C24_OneSnapshotPerDay ==
    /\ day.snapshots <= 1
    /\ day.t >= 5 /\ day.t < MaxMinute + BASE_CHECK_INTERVAL_MINUTES
         => day.snapshots = 1

\* C25: every call of the exchange client, by whichever job, is made by
\* retry_async.
C25_AllCallsWrapped ==
    call.site # None /\ call.calls > 0 => ~call.direct

\* C26: no step of the entry job or of the monitor changes the instrument,
\* quantity, entry price, entry amount, planned exit time, creation time or
\* stored stop-loss and take-profit of an existing position, and none
\* removes a position: a close writes the close fields only.
C26_PositionFrame ==
    [][/\ Len(trades') >= Len(trades)
       /\ \A i \in 1..Len(trades) :
            /\ trades'[i].symbol = trades[i].symbol
            /\ trades'[i].qty = trades[i].qty
            /\ trades'[i].price = trades[i].price
            /\ trades'[i].amount = trades[i].amount
            /\ trades'[i].exit_at = trades[i].exit_at
            /\ trades'[i].created = trades[i].created
            /\ trades'[i].stoploss_price = trades[i].stoploss_price
            /\ trades'[i].take_profit_price = trades[i].take_profit_price]_vars

\* A position was closed by the monitor at a price other than its entry
\* price, and a later entry cycle added a position.
C26_Witness ==
    \E i \in 1..Len(trades) :
        /\ trades[i].closed = 1
        /\ hist[i].closes > 0
        /\ trades[i].pnl # <<0>>
        /\ trades[i].pnl_percent # None
        /\ i < Len(trades)

\* C27: a read of an entry of age >= ttl, the age ttl itself included, goes
\* to the loader, and a read of an entry of age < ttl returns the stored
\* value without the loader.
C27_ValidWhileYounger ==
    [][\A r \in Readers :
        cstat.lastRefresh # None /\ rd[r].pc = "idle" /\ rd'[r] # rd[r] =>
            LET age == clock - cstat.lastRefresh[1]
            IN /\ age >= TTL(cstat.key) => rd'[r].pc = "load"
               /\ age < TTL(cstat.key) =>
                    /\ rd'[r].pc = "idle"
                    /\ rd'[r].ret = Stored(cache, cstat.key)]_vars

\* C28: with the stream enabled, a read returns the streamed price without
\* the loader while that price is younger than 10 s, and does not return a
\* streamed price older than 10 s: it goes to the loader.
C28_StreamFreshOrPolled ==
    [][\A r \in Readers :
        /\ USE_WEBSOCKET
        /\ cstat.key = "prices"
        /\ cstat.from_stream
        /\ rd[r].pc = "idle"
        /\ rd'[r] # rd[r]
        => LET age == clock - cstat.lastRefresh[1]
           IN /\ age < STREAM_FRESH =>
                   /\ rd'[r].pc = "idle"
                   /\ rd'[r].ret = << cache.prices[1].price >>
              /\ age > STREAM_FRESH => rd'[r].pc = "load"]_vars

\* C29: the sleep immediately before attempt k (counted from 0) lasts
\* between 2^k and 2^k + 0.5 seconds, and every sleep is followed by an
\* attempt.
C29_WaitBeforeAttempt ==
    /\ \A k \in 1..(call.calls - 1) :
         /\ k <= Len(call.waits)
         /\ call.waits[k] >= 10 * Pow2(k)
         /\ call.waits[k] < 10 * Pow2(k) + 5
    /\ call.pc \in {"returned", "raised"} => Len(call.waits) < Max(call.calls, 1)

\* C30: over the successive cycles of one open position the stop-loss
\* level the monitor computes never decreases, and it is never below
\* entryPrice * (1 - baseThreshold).
C30_StopLossRatchet ==
    [][risk.in.fn = "monitor" /\ risk'.out.level # None =>
        /\ risk'.out.level[1] >=
             risk.in.tr.price * (100 - get_stoploss_threshold) * 240
        /\ risk.out.level # None => risk'.out.level[1] >= risk.out.level[1]]_vars

\* C31: the stop-loss is max(entry*(1-base), entry*(1 + profit*timeFactor
\* - base*(1-timeFactor))) with profit = current/entry - 1 and timeFactor =
\* min(hours/24, 0.8) when current > entry, and the floor entry*(1-base)
\* otherwise; entry 100, base 0.05, current 110, 24 h gives 107; the
\* function of bot.py and the one of config.py return the same value.
C31_StopLossFormula ==
    risk.out # None /\ risk.in.fn = "stoploss" =>
        LET a == risk.in
            o == risk.out[1]
            h == << a.h1, a.h2 >>
            Floor(b) == a.entry_price * (100 - b) * 240
            Lock(t, b) == SLScale * a.entry_price
                          + 100 * (a.current_price - a.entry_price) * Min(t, 192)
                          - a.entry_price * b * (240 - Min(t, 192))
            Expected(t, b) == IF a.current_price > a.entry_price
                              THEN Max(Floor(b), Lock(t, b))
                              ELSE Floor(b)
        IN \A k \in 1..2 :
            /\ o.cfg[k] = Expected(h[k], a.base_threshold)
            /\ o.bot[k] = Expected(10 * (h[k] \div 10), get_stoploss_threshold)
            /\ a.base_threshold = get_stoploss_threshold /\ h[k] % 10 = 0
               => o.bot[k] = o.cfg[k]
            /\ a.entry_price = 100 /\ a.current_price = 110
               /\ a.base_threshold = 5 /\ h[k] = 240
               => o.cfg[k] = 107 * SLScale /\ o.bot[k] = 107 * SLScale

\* The scenario was evaluated by both functions, which agreed on 107.
C31_Witness ==
    /\ risk.out # None
    /\ risk.in.fn = "stoploss"
    /\ risk.in.entry_price = 100 /\ risk.in.current_price = 110
    /\ risk.in.base_threshold = 5 /\ risk.in.h1 = 240 /\ risk.in.h2 = 100
    /\ risk.out[1].bot[1] = 107 * SLScale
    /\ risk.out[1].cfg[1] = risk.out[1].bot[1]
    /\ risk.out[1].cfg[2] = risk.out[1].bot[2]

\* C32: the realized P&L persisted with a close by the monitor is
\* (exitPrice - entryPrice) * quantity of the closed position itself, with
\* exitPrice the price read for it in the closing iteration; every stored
\* position has a non-zero entry price, so the value is always computed.
C32_PnlOfSamePosition ==
    \A i \in Ids :
        /\ trades[i].price > 0
        /\ hist[i].ev # None =>
            /\ trades[i].closed = 1
            /\ trades[i].pnl =
                 << (hist[i].ev[1].price - trades[i].price) * trades[i].qty >>

\* Two positions with different entry prices were closed by the monitor,
\* each with its own P&L.
C32_Witness ==
    \E i \in Ids, j \in Ids :
        /\ i # j
        /\ hist[i].ev # None /\ hist[j].ev # None
        /\ trades[i].closed = 1 /\ trades[j].closed = 1
        /\ trades[i].price # trades[j].price
        /\ trades[i].pnl # trades[j].pnl
        /\ trades[i].pnl[1] = Pnl(trades[i], hist[i].ev[1].price)
        /\ trades[j].pnl[1] = Pnl(trades[j], hist[j].ev[1].price)

\* C33: while a remote call of one job is outstanding (an exchange call,
\* a retry wait, a notification delivery), every other job whose scheduled
\* time has come can be started by the event loop.
C33_TimelineNeverBlocked ==
    \A i \in Jobs, j \in Jobs :
        /\ i # j
        /\ event_loop.at[i] \in {"await", "sleep", "post"}
        /\ event_loop.due[j] /\ event_loop.at[j] = "idle"
        => CanStart(j)

\* C34: a step of the entry job or of the health check leaves
\* next_check_task unchanged and is no step of a monitor task: it changes
\* no task's position and no cycle's local state.
C34_JobsLeaveMonitorAlone ==
    [][entry' # entry \/ call' # call =>
        /\ next_check_task' = next_check_task
        /\ pc' = pc
        /\ cyc' = cyc]_vars

\* The entry job and the health check have both run while a run of the
\* monitor is pending.
C34_Witness ==
    /\ entry.result = "done"
    /\ call.site = << HealthSite >>
    /\ next_check_task # 0
    /\ pc[next_check_task] = "sleep"

\* C35: when fetching the reference ticker raises, is_market_safe does
\* not answer safe and the entry cycle places no order and logs no
\* position.
C35_GateFailsClosed ==
    risk.in.fn = "is_market_safe" /\ risk.in.ticker.raised =>
        /\ risk.out = << FALSE >>
        /\ entry.result = "unsafe"
        /\ entry.orders = 0
        /\ entry.made = 0

\* C36: outside dry-run at most one sell order is placed for a position
\* over the whole run, whatever happens to the close after the order.
C36_OneSellPerPosition ==
    ~DRY_RUN => \A i \in Ids : hist[i].sells <= 1

\* C37: the stop-loss test of the monitor is true exactly when the price
\* is at or below entryPrice * (1 - baseThreshold); for a price above the
\* entry price the dynamic level is strictly below the price.
C37_TriggerIsStaticFloor ==
    /\ risk.in.fn = "monitor"
    /\ risk.out.price # NoPrice
    /\ risk.out.level # None
    => LET tr == risk.in.tr
           o == risk.out
       IN /\ o.hit <=> 100 * o.price <= tr.price * (100 - get_stoploss_threshold)
          /\ o.price > tr.price => o.level[1] < o.price * SLScale

\* A position in profit held for a day: the level is above the floor, and
\* the stop-loss test is false.
C37_Witness ==
    /\ risk.in.fn = "monitor"
    /\ risk.out.level # None
    /\ risk.out.price > risk.in.tr.price
    /\ risk.out.hours >= 24
    /\ risk.out.level[1] >
         risk.in.tr.price * (100 - get_stoploss_threshold) * 240
    /\ ~risk.out.hit

\* C38: outside dry-run every buy order an entry cycle placed has its
\* open position in the store when the cycle ends.
C38_EveryBuyRecorded ==
    ~DRY_RUN => entry.made >= entry.orders

\* C39: the timestamp of a cache entry never decreases, whichever of the
\* concurrent readers and the stream handler writes it.
C39_TimestampMonotone ==
    [][/\ cache'.tickers.timestamp >= cache.tickers.timestamp
       /\ cache'.balances.timestamp >= cache.balances.timestamp
       /\ cache.prices # None /\ cache'.prices # None
          => cache'.prices[1].timestamp >= cache.prices[1].timestamp]_vars

\* C40: a refresh whose loader fails (it raised after its retries, or
\* the ticker had no last price) changes neither the payload nor the
\* timestamp of the entry and returns no payload; an entry that was absent
\* or expired when the refresh began is so afterwards, so the next read
\* loads again.
C40_FailedRefreshFrame ==
    [][\A r \in Readers :
        /\ rd[r].pc = "load" /\ rd'[r].pc = "idle"
        /\ rd'[r].ret \in { Raised, << NoPrice >> }
        => /\ cache' = cache
           /\ cstat'.lastRefresh = cstat.lastRefresh
           /\ LET key == cstat.key
                  absent == Stored(cache, key) = None
                  ts == IF key = "prices" THEN cache.prices[1].timestamp
                        ELSE cache[key].timestamp
              IN (absent \/ Expired(rd[r].now - ts, TTL(key)))
                 => \/ Stored(cache', key) = None
                    \/ Expired(clock' - ts, TTL(key))]_vars

\* A refresh of an expired entry has failed: the reader got no payload and
\* the entry still holds its old payload with its old timestamp.
C40_Witness ==
    \E r \in Readers :
        /\ rd[r].pc = "idle"
        /\ rd[r].ret \in { Raised, << NoPrice >> }
        /\ Stored(cache, cstat.key) # None
        /\ cstat.lastRefresh # None
        /\ Expired(rd[r].now - cstat.lastRefresh[1], TTL(cstat.key))

====
